---- MODULE Spec2Model ----
(***************************************************************************)
(* Model of the go-monobank client: webhook signature verification with    *)
(* the lazily resolved, mutex-guarded public key cache                      *)
(* (client.VerifyWebhook, client.ParseAndVerifyWebhook,                     *)
(* client.ensureWebhookPublicKey) and the classification of HTTP responses  *)
(* (client.doJSON, kindFromStatus, parseRetryAfter, the error types).       *)
(*                                                                          *)
(* Text is a sequence of character codes.  Base64 text uses the sextet      *)
(* value 0..63 of a character of the standard alphabet as its code, 64 for  *)
(* '=', 65 for a character outside the alphabet, 66 for a space and 67 for  *)
(* a newline.  JSON documents are sequences of lexemes.                     *)
(***************************************************************************)
EXTENDS Integers, Sequences, FiniteSets, TLC

\* ------------------------------------------------------------------ bounds
\* Longest webhook body, in bytes.
MaxBody == 2
\* Calls a caller may start.
MaxCalls == 2

\* ------------------------------------------------------------ text helpers
IsSpace(c) == c \in {66, 67}

RECURSIVE TrimLeft(_)
TrimLeft(s) ==
  IF s # <<>> /\ IsSpace(Head(s)) THEN TrimLeft(Tail(s)) ELSE s

RECURSIVE TrimRight(_)
TrimRight(s) ==
  IF s # <<>> /\ IsSpace(s[Len(s)]) THEN TrimRight(SubSeq(s, 1, Len(s) - 1)) ELSE s

\* strings.TrimSpace
TrimSpace(s) == TrimRight(TrimLeft(s))

\* Replace the element at position i.
SetAt(s, i, c) == [s EXCEPT ![i] = c]

\* --------------------------------------------------------------- base64
IsSextet(c) == c >= 0 /\ c < 64

RECURSIVE B64Encode(_)
\* base64.StdEncoding.EncodeToString: three bytes give four characters, a
\* final group of one or two bytes is padded with '='.
B64Encode(b) ==
  IF b = <<>> THEN <<>>
  ELSE IF Len(b) = 1 THEN <<b[1] \div 4, (b[1] % 4) * 16, 64, 64>>
  ELSE IF Len(b) = 2
    THEN <<b[1] \div 4, (b[1] % 4) * 16 + b[2] \div 16, (b[2] % 16) * 4, 64>>
  ELSE <<b[1] \div 4, (b[1] % 4) * 16 + b[2] \div 16,
         (b[2] % 16) * 4 + b[3] \div 64, b[3] % 64>>
       \o B64Encode(SubSeq(b, 4, Len(b)))

RECURSIVE B64Quanta(_)
\* The bytes of a text whose length is a multiple of four, or <<-1>> for
\* corrupt input.  Decoding is not strict: the unused low bits of the last
\* character before the padding are ignored.
B64Quanta(t) ==
  IF t = <<>> THEN <<>>
  ELSE
    LET c == SubSeq(t, 1, 4)
        rest == SubSeq(t, 5, Len(t))
        b1 == c[1] * 4 + c[2] \div 16
        b2 == (c[2] % 16) * 16 + c[3] \div 4
        b3 == (c[3] % 4) * 64 + c[4]
    IN IF ~(IsSextet(c[1]) /\ IsSextet(c[2])) THEN <<-1>>
       ELSE IF IsSextet(c[3]) /\ IsSextet(c[4])
         THEN LET more == B64Quanta(rest)
              IN IF more = <<-1>> THEN <<-1>> ELSE <<b1, b2, b3>> \o more
       ELSE IF rest # <<>> THEN <<-1>>
       ELSE IF IsSextet(c[3]) /\ c[4] = 64 THEN <<b1, b2>>
       ELSE IF c[3] = 64 /\ c[4] = 64 THEN <<b1>>
       ELSE <<-1>>

\* base64.StdEncoding.DecodeString: newlines are skipped, padding is
\* required.  [ok, bytes].
B64Decode(s) ==
  LET t == SelectSeq(s, LAMBDA c : c # 67)
      b == IF Len(t) % 4 # 0 THEN <<-1>> ELSE B64Quanta(t)
  IN IF b = <<-1>> THEN [ok |-> FALSE, bytes |-> <<>>]
     ELSE [ok |-> TRUE, bytes |-> b]

\* ------------------------------------------------- keys and signatures
\* crypto/ecdsa, crypto/sha256, encoding/pem and crypto/x509 are idealised:
\* the digest is collision free on the modelled bodies and a signature is
\* valid for exactly one (key, digest, nonce).  A signature is four bytes,
\* <<48, r, s \div 256, s % 256>> with s = (r + Mult(k) * digest) % 65536;
\* a key container is three bytes, <<45, algorithm, key>>.
KeyIds == {1, 2}

Mult(k) == IF k = 1 THEN 3 ELSE 5

Lex(c) == [c |-> c, v |-> <<>>]

KeyMember(text) == [c |-> "key", v |-> text]

LexCode(l) ==
  CASE l.c = "{" -> 1
    [] l.c = "}" -> 2
    [] l.c = "1" -> 3
    [] l.c = " " -> 4
    [] OTHER -> 0

RECURSIVE Sum256(_)
\* sha256.Sum256 over the raw bytes.
Sum256(body) ==
  IF body = <<>> THEN 0 ELSE LexCode(Head(body)) + 5 * Sum256(Tail(body))

\* ecdsa.SignASN1, used by the senders of webhooks.
SignASN1(k, h, r) ==
  LET s == (r + Mult(k) * h) % 65536
  IN <<48, r, s \div 256, s % 256>>

\* ecdsa.VerifyASN1: FALSE for a malformed signature and for a wrong one.
VerifyASN1(pub, h, sig) ==
  /\ Len(sig) = 4
  /\ sig[1] = 48
  /\ sig[3] * 256 + sig[4] = (sig[2] + Mult(pub) * h) % 65536

\* The PEM container of the elliptic-curve key k, and of an RSA key.
PEMOf(k) == <<45, 1, k>>

PEMOfRSA == <<45, 2, 1>>

\* parseECDSAPublicKeyFromPEM: [err, key]; err is "" on success.
parseECDSAPublicKeyFromPEM(pemBytes) ==
  IF ~(Len(pemBytes) = 3 /\ pemBytes[1] = 45)
    THEN [err |-> "no PEM block found", key |-> 0]
  ELSE IF pemBytes[2] \notin {1, 2} \/ pemBytes[3] \notin KeyIds
    THEN [err |-> "x509: failed to parse public key", key |-> 0]
  ELSE IF pemBytes[2] # 1
    THEN [err |-> "unexpected public key type", key |-> 0]
  ELSE [err |-> "", key |-> pemBytes[3]]

\* ------------------------------------------------------------------ JSON
IsJSONSpace(l) == l.c = " "

RECURSIVE TrimJSONLeft(_)
TrimJSONLeft(b) ==
  IF b # <<>> /\ IsJSONSpace(Head(b)) THEN TrimJSONLeft(Tail(b)) ELSE b

RECURSIVE TrimJSONRight(_)
TrimJSONRight(b) ==
  IF b # <<>> /\ IsJSONSpace(b[Len(b)])
    THEN TrimJSONRight(SubSeq(b, 1, Len(b) - 1)) ELSE b

\* A member of a JSON object is one lexeme, [c |-> name, v |-> value]; the
\* separators between members are left out.  The "key" and "pageUrl" members
\* hold the content of their strings.  The value of every other member is its literal
\* text: 34 is '"', 46 is '.', a digit is its value 0..9, 66 is a space, 120
\* a letter, 110 stands for the word null and 116 for the word true.
MemberNames ==
  {"key", "pageUrl", "errCode", "errText", "errorDescription", "message", "error",
   "description", "detail", "Message"}

StringMembers == {"key", "pageUrl"}

IsDigits(v) == v # <<>> /\ \A i \in 1..Len(v) : v[i] \in 0..9

RECURSIVE StripZeros(_)
\* The digits of a fraction without its trailing zeros.
StripZeros(ds) ==
  IF ds # <<>> /\ ds[Len(ds)] = 0 THEN StripZeros(SubSeq(ds, 1, Len(ds) - 1)) ELSE ds

\* The literal v as json.Unmarshal decodes it into an `any`: [t, s, int,
\* frac] with t the type (t = "invalid" when v is not a JSON value), s the
\* content of a string, int and frac the digits of a float64 number.
JSONValue(v) ==
  LET dot == {i \in 1..Len(v) : v[i] = 46}
      d == CHOOSE i \in dot : TRUE
      whole == IF dot = {} THEN v ELSE SubSeq(v, 1, d - 1)
      frac == IF dot = {} THEN <<>> ELSE SubSeq(v, d + 1, Len(v))
      V(t, str, i, f) == [t |-> t, s |-> str, int |-> i, frac |-> f]
  IN IF v = <<110>> THEN V("nil", <<>>, <<>>, <<>>)
     ELSE IF v = <<116>> THEN V("bool", <<>>, <<>>, <<>>)
     ELSE IF /\ Len(v) >= 2
             /\ v[1] = 34
             /\ v[Len(v)] = 34
             /\ \A i \in 2..(Len(v) - 1) : v[i] # 34
       THEN V("string", SubSeq(v, 2, Len(v) - 1), <<>>, <<>>)
     ELSE IF /\ Cardinality(dot) <= 1
             /\ IsDigits(whole)
             /\ (Len(whole) > 1 => whole[1] # 0)
             /\ (dot # {} => IsDigits(frac))
       THEN V("float64", <<>>, whole, StripZeros(frac))
     ELSE V("invalid", <<>>, <<>>, <<>>)

\* The members of the object body, in order, or <<[c |-> "none"]>> when
\* body is not the text of a JSON object.
JSONMembers(body) ==
  LET t == TrimJSONRight(TrimJSONLeft(body))
      inner == SelectSeq(SubSeq(t, 2, Len(t) - 1), LAMBDA l : ~IsJSONSpace(l))
  IN IF /\ Len(t) >= 2
        /\ t[1].c = "{"
        /\ t[Len(t)].c = "}"
        /\ \A i \in 1..Len(inner) :
             /\ inner[i].c \in MemberNames
             /\ inner[i].c \notin StringMembers => JSONValue(inner[i].v).t # "invalid"
       THEN inner
     ELSE <<[c |-> "none", v |-> <<>>]>>

\* json.Unmarshal into a struct (InvoiceStatusResponse, PublicKeyResponse).
\* err is "syntax" for text that is not JSON, "type" for JSON that is not an
\* object, "" otherwise; key is the value of the "key" member, if any.
jsonUnmarshal(body) ==
  LET t == TrimJSONRight(TrimJSONLeft(body))
      inner == JSONMembers(body)
      keys == SelectSeq(inner, LAMBDA l : l.c = "key")
  IN IF t = <<>> THEN [err |-> "syntax", key |-> <<>>]
     ELSE IF \A i \in 1..Len(t) : t[i].c = "1" THEN [err |-> "type", key |-> <<>>]
     ELSE IF \A i \in 1..Len(inner) : inner[i].c # "none"
       THEN [err |-> "", key |-> IF keys = <<>> THEN <<>> ELSE keys[Len(keys)].v]
     ELSE [err |-> "syntax", key |-> <<>>]

\* ---------------------------------------------------------------- errors
Sentinels ==
  {"ErrValidation", "ErrEncode", "ErrTransport", "ErrDecode", "ErrBadRequest",
   "ErrInvalidToken", "ErrNotFound", "ErrMethodNotAllowed", "ErrRateLimited",
   "ErrServerError", "ErrUnexpectedResponse", "ErrInvalidSignature",
   "ErrPaymentError"}

\* An error value: its Go type, the Op or message that tells its origin, and
\* for an APIError its Kind, StatusCode, RetryAfter (<<>> when nil), ErrCode
\* and Description; body is the Body of an APIError and of a DecodeError.
Err(type, op) ==
  [type |-> type, op |-> op, kind |-> "", status |-> 0, retryAfter |-> <<>>,
   errCode |-> <<>>, description |-> <<>>, body |-> <<>>]

Nil == Err("nil", "")

\* errors.Is(err, target) through the Is methods of the error types.  An
\* error made by fmt.Errorf wraps a standard library error, or nothing, and
\* matches no sentinel; so does the Cause of every typed error.
ErrorsIs(err, target) ==
  CASE err.type = "ValidationError" -> target = "ErrValidation"
    [] err.type = "EncodeError" -> target = "ErrEncode"
    [] err.type = "TransportError" -> target = "ErrTransport"
    [] err.type = "DecodeError" -> target = "ErrDecode"
    [] err.type = "UnexpectedResponseError" -> target = "ErrUnexpectedResponse"
    [] err.type = "WebhookSignatureError" -> target = "ErrInvalidSignature"
    [] err.type = "APIError" ->
         \/ err.kind # "" /\ target = err.kind
         \/ target = "ErrUnexpectedResponse" /\ err.kind = ""
    [] OTHER -> FALSE

\* Mutant: 401 is taken for an invalid token, like 403.
kindFromStatusWith401(status) ==
  CASE status = 400 -> "ErrBadRequest"
    [] status \in {401, 403} -> "ErrInvalidToken"
    [] status = 404 -> "ErrNotFound"
    [] status = 405 -> "ErrMethodNotAllowed"
    [] status = 429 -> "ErrRateLimited"
    [] OTHER -> IF status >= 500 /\ status <= 599 THEN "ErrServerError"
                ELSE "ErrUnexpectedResponse"

kindFromStatus(status) ==
  CASE status = 400 -> "ErrBadRequest"
    [] status = 403 -> "ErrInvalidToken"
    [] status = 404 -> "ErrNotFound"
    [] status = 405 -> "ErrMethodNotAllowed"
    [] status = 429 -> "ErrRateLimited"
    [] OTHER -> IF status >= 500 /\ status <= 599 THEN "ErrServerError"
                ELSE "ErrUnexpectedResponse"

\* ------------------------------------------------------ 64-bit integers
\* An int64 (time.Duration) is four 16-bit limbs, least significant first,
\* in two's complement; a magnitude of any size is a limb sequence without
\* leading zero limbs.
RECURSIVE MulSmall(_, _, _)
\* x * m + carry, unbounded.
MulSmall(x, m, carry) ==
  IF x = <<>> THEN (IF carry = 0 THEN <<>> ELSE <<carry>>)
  ELSE LET v == Head(x) * m + carry
       IN <<v % 65536>> \o MulSmall(Tail(x), m, v \div 65536)

RECURSIVE MulPow10(_, _)
\* x * 10^n, unbounded.
MulPow10(x, n) == IF n = 0 THEN x ELSE MulPow10(MulSmall(x, 10, 0), n - 1)

\* The low 64 bits of a magnitude: what an int64 multiplication keeps.
Wrap64(x) == [i \in 1..4 |-> IF i <= Len(x) THEN x[i] ELSE 0]

FitsInt64(x) == Len(x) <= 3 \/ (Len(x) = 4 /\ x[4] < 32768)

IsNegative64(d) == d[4] >= 32768

Zero64 == <<0, 0, 0, 0>>

\* --------------------------------------------------------- Retry-After
\* Header text: a digit is its value 0..9, 43 is '+', 45 is '-', 66 a space,
\* 120 a letter; 200 stands for a whole well-formed HTTP-date 30 seconds in
\* the past and 202 for one 30 seconds ahead.
IsDigit(c) == c >= 0 /\ c <= 9

RECURSIVE DigitsValue(_, _)
DigitsValue(ds, acc) ==
  IF ds = <<>> THEN acc ELSE DigitsValue(Tail(ds), MulSmall(acc, 10, Head(ds)))

\* strconv.Atoi on a 64-bit build: [ok, neg, mag].
Atoi(v) ==
  LET signed == v # <<>> /\ Head(v) \in {43, 45}
      neg == v # <<>> /\ Head(v) = 45
      ds == IF signed THEN Tail(v) ELSE v
      mag == DigitsValue(ds, <<>>)
      wellFormed == ds # <<>> /\ \A i \in 1..Len(ds) : IsDigit(ds[i])
      inRange == FitsInt64(mag) \/ (neg /\ mag = <<0, 0, 0, 32768>>)
  IN IF wellFormed /\ inRange THEN [ok |-> TRUE, neg |-> neg, mag |-> mag]
     ELSE [ok |-> FALSE, neg |-> FALSE, mag |-> <<>>]

\* http.ParseTime followed by time.Until: [ok, past, mag], mag in seconds.
ParseTimeUntil(v) ==
  IF v = <<200>> THEN [ok |-> TRUE, past |-> TRUE, mag |-> <<30>>]
  ELSE IF v = <<202>> THEN [ok |-> TRUE, past |-> FALSE, mag |-> <<30>>]
  ELSE [ok |-> FALSE, past |-> FALSE, mag |-> <<>>]

\* parseRetryAfter: <<>> when the header gives no duration, else <<d>> with
\* d the int64 count of nanoseconds.
parseRetryAfter(header) ==
  LET v == TrimSpace(header)
      a == Atoi(v)
      t == ParseTimeUntil(v)
      secs == IF a.neg THEN <<>> ELSE a.mag
  IN IF v = <<>> THEN <<>>
     ELSE IF a.ok THEN <<Wrap64(MulPow10(secs, 9))>>
     ELSE IF t.ok
       THEN <<IF t.past THEN Zero64 ELSE Wrap64(MulPow10(t.mag, 9))>>
     ELSE <<>>

\* ---------------------------------------------------------------- doJSON
\* One round trip of the HTTP client as the transport decides it: whether
\* the request could be built, whether a response was obtained, its status
\* code, its Retry-After header and its body.
RoundTrip(build, transport, status, retryAfter, body) ==
  [build |-> build, transport |-> transport, status |-> status,
   retryAfter |-> retryAfter, body |-> body]

\* string(body): "{" is 123, "}" is 125, the body 1 is the digit 1, a
\* member is its quoted name (one code a name), 58 for ':' and its value.
NameCode(c) ==
  CASE c = "key" -> 204
    [] c = "pageUrl" -> 205
    [] c = "errCode" -> 201
    [] c = "message" -> 202
    [] c = "errText" -> 203
    [] c = "errorDescription" -> 206
    [] c = "error" -> 207
    [] c = "description" -> 208
    [] c = "detail" -> 209
    [] c = "Message" -> 210
    [] OTHER -> 0

LexText(l) ==
  CASE l.c = "{" -> <<123>>
    [] l.c = "}" -> <<125>>
    [] l.c = "1" -> <<1>>
    [] l.c = " " -> <<66>>
    [] l.c \in StringMembers -> <<34, NameCode(l.c), 34, 58, 34>> \o l.v \o <<34>>
    [] OTHER -> <<34, NameCode(l.c), 34, 58>> \o l.v

RECURSIVE BodyText(_)
BodyText(body) ==
  IF body = <<>> THEN <<>> ELSE LexText(Head(body)) \o BodyText(Tail(body))

\* The bytes of a body that an APIError and a DecodeError keep.
BodyCapture == 4096

\* Mutant: the whole body is kept.
trimBodyWhole(b, max) == b

\* trimBody: b when it has at most max bytes, else its first max bytes.
trimBody(b, max) ==
  IF max <= 0 \/ Len(b) <= max THEN b ELSE SubSeq(b, 1, max)

\* The string fields of apiErrorBody, in the order parseAPIErrorBody looks
\* at them.
DescriptionFields ==
  <<"errText", "errorDescription", "message", "error", "description", "detail">>

\* encoding/json matches the key of a member with the field of a struct
\* whatever the case of its letters; the key of a map is the key as sent.
FoldName(name) == IF name = "Message" THEN "message" ELSE name

\* Mutant: only a string is rendered, as if ErrCode were a string field.
anyToStringOfString(x) ==
  IF x.t = "string" THEN TrimSpace(x.s) ELSE <<>>

\* anyToString on a value json.Unmarshal produced: nil, a string, a float64
\* (as an integer when it has no fraction) or a bool.
anyToString(x) ==
  CASE x.t = "nil" -> <<>>
    [] x.t = "string" -> TrimSpace(x.s)
    [] x.t = "float64" -> IF x.frac = <<>> THEN x.int ELSE x.int \o <<46>> \o x.frac
    [] OTHER -> <<116>>

\* Mutant: the last value that is not blank is taken.
firstNonEmptyStringLast(values) ==
  LET full == {i \in 1..Len(values) : TrimSpace(values[i]) # <<>>}
  IN IF full = {} THEN <<>>
     ELSE TrimSpace(values[CHOOSE i \in full : \A j \in full : j <= i])

RECURSIVE firstNonEmptyString(_)
firstNonEmptyString(values) ==
  IF values = <<>> THEN <<>>
  ELSE IF TrimSpace(Head(values)) # <<>> THEN TrimSpace(Head(values))
  ELSE firstNonEmptyString(Tail(values))

\* parseAPIErrorBody: [errCode, desc].  The body is decoded into
\* apiErrorBody, whose description fields are strings; when that fails,
\* into a map; when that fails too the text of the body is the description.
parseAPIErrorBody(body) ==
  LET Absent == [t |-> "nil", s |-> <<>>, int |-> <<>>, frac |-> <<>>]
      Str(x) == IF x.t = "string" THEN x.s ELSE <<>>
      Last(found, name) ==
        IF found = <<>> THEN Absent
        ELSE IF name \in StringMembers
          THEN [Absent EXCEPT !.t = "string", !.s = found[Len(found)].v]
        ELSE JSONValue(found[Len(found)].v)
      Or(first, second) == IF first # <<>> THEN first ELSE second
      Fields(raw, errCode, structured, fields, texts, single) ==
        IF structured
          THEN [errCode |-> anyToString(errCode),
                desc |-> Or(firstNonEmptyString([i \in 1..Len(fields) |->
                                                   TrimSpace(Str(fields[i]))]), raw)]
        ELSE [errCode |-> anyToString(errCode),
              desc |-> TrimSpace(Or(Or(firstNonEmptyString([i \in 1..Len(texts) |->
                                                              anyToString(texts[i])]),
                                       single), raw))]
      Decoded(members, raw) ==
        LET Member(name) == Last(SelectSeq(members, LAMBDA l : l.c = name), name)
            Field(name) == Last(SelectSeq(members, LAMBDA l : FoldName(l.c) = name), name)
            names == {members[i].c : i \in 1..Len(members)}
        IN IF \E i \in 1..Len(members) : members[i].c = "none"
             THEN [errCode |-> <<>>, desc |-> raw]
           ELSE Fields(raw, Member("errCode"),
                       \A i \in 1..Len(members) :
                         (\E k \in 1..Len(DescriptionFields) :
                            FoldName(members[i].c) = DescriptionFields[k])
                           => JSONValue(members[i].v).t \in {"nil", "string"},
                       [i \in 1..Len(DescriptionFields) |-> Field(DescriptionFields[i])],
                       [i \in 1..Len(DescriptionFields) |-> Member(DescriptionFields[i])],
                       IF Cardinality(names) = 1
                         THEN anyToString(Member(CHOOSE n \in names : TRUE))
                       ELSE <<>>)
  IN IF Len(body) = 0 THEN [errCode |-> <<>>, desc |-> <<>>]
     ELSE Decoded(JSONMembers(body), TrimSpace(BodyText(body)))

APIErrorOf(status, header, body) ==
  LET Of(parsed) ==
        [type |-> "APIError", op |-> "", kind |-> kindFromStatus(status),
         status |-> status,
         retryAfter |-> IF status = 429 THEN parseRetryAfter(header) ELSE <<>>,
         errCode |-> parsed.errCode,
         description |-> parsed.desc,
         body |-> trimBody(BodyText(body), BodyCapture)]
  IN Of(parseAPIErrorBody(body))

\* Mutant: an empty body goes to json.Unmarshal like any other.
decodeBodyNoEmptyCheck(status, out, body) ==
  LET dec == jsonUnmarshal(body)
  IN IF ~out THEN [err |-> Nil, key |-> <<>>]
     ELSE IF dec.err # ""
       THEN [err |-> [Err("DecodeError", "decode") EXCEPT
                        !.body = trimBody(BodyText(body), BodyCapture)],
             key |-> <<>>]
     ELSE [err |-> Nil, key |-> dec.key]

\* doJSON on a 2xx response: [err, key].
decodeBody(status, out, body) ==
  LET dec == jsonUnmarshal(body)
  IN IF ~out THEN [err |-> Nil, key |-> <<>>]
     ELSE IF Len(body) = 0
       THEN [err |-> [Err("UnexpectedResponseError", "decode") EXCEPT !.status = status],
             key |-> <<>>]
     ELSE IF dec.err # ""
       THEN [err |-> [Err("DecodeError", "decode") EXCEPT
                        !.body = trimBody(BodyText(body), BodyCapture)],
             key |-> <<>>]
     ELSE [err |-> Nil, key |-> dec.key]

\* Mutant: a call that met a transport error, a 429 or a 5xx is made again.
doJSONRetries(dflt, token, reqToken, out, rt) ==
  LET tok1 == TrimSpace(token)
      tok2 == IF tok1 = <<>> THEN TrimSpace(reqToken) ELSE tok1
      tok == IF tok2 = <<>> THEN TrimSpace(dflt) ELSE tok2
      again == rt.transport # "ok" \/ rt.status = 429 \/ rt.status >= 500
      R(e, sent, k) == [err |-> e, sent |-> sent, xToken |-> tok, key |-> k,
                        attempts |-> IF sent THEN (IF again THEN 2 ELSE 1) ELSE 0]
      Decoded(dec) == R(dec.err, TRUE, dec.key)
  IN IF tok = <<>> THEN R(Err("ValidationError", "auth"), FALSE, <<>>)
     ELSE IF ~rt.build THEN R(Err("EncodeError", "request"), FALSE, <<>>)
     ELSE IF rt.transport # "ok" THEN R(Err("TransportError", "http.do"), TRUE, <<>>)
     ELSE IF rt.status < 200 \/ rt.status >= 300
       THEN R(APIErrorOf(rt.status, rt.retryAfter, rt.body), TRUE, <<>>)
     ELSE Decoded(decodeBody(rt.status, out, rt.body))

\* client.doJSON: [err, sent, xToken, key, attempts].  sent tells whether
\* c.http.Do was called and attempts how many times, xToken is the X-Token
\* header, key the decoded "key" member.
doJSON(dflt, token, reqToken, out, rt) ==
  LET tok1 == TrimSpace(token)
      tok2 == IF tok1 = <<>> THEN TrimSpace(reqToken) ELSE tok1
      tok == IF tok2 = <<>> THEN TrimSpace(dflt) ELSE tok2
      R(e, sent, k) == [err |-> e, sent |-> sent, xToken |-> tok, key |-> k,
                        attempts |-> IF sent THEN 1 ELSE 0]
      Decoded(dec) == R(dec.err, TRUE, dec.key)
  IN IF tok = <<>> THEN R(Err("ValidationError", "auth"), FALSE, <<>>)
     ELSE IF ~rt.build THEN R(Err("EncodeError", "request"), FALSE, <<>>)
     ELSE IF rt.transport # "ok" THEN R(Err("TransportError", "http.do"), TRUE, <<>>)
     ELSE IF rt.status < 200 \/ rt.status >= 300
       THEN R(APIErrorOf(rt.status, rt.retryAfter, rt.body), TRUE, <<>>)
     ELSE Decoded(decodeBody(rt.status, out, rt.body))

\* ------------------------------------------------------------ the state
VARIABLES
  webhookPublicKeyPEM,     \* cfg.webhookPublicKeyPEM, <<>> when not set
  webhookPublicKeyBase64,  \* cfg.webhookPublicKeyBase64, <<>> when not set
  defaultToken,            \* cfg.defaultToken
  pubKey,                  \* client.pubKey, 0 for nil
  pubKeyMu,                \* client.pubKeyMu: its holder, 0 when unlocked
  pc,                      \* where each caller is in its call
  call,                    \* the arguments of each caller's call
  pub,                     \* the key ensureWebhookPublicKey gave the caller
  verr,                    \* what VerifyWebhook returned to the caller
  ret,                     \* what the call returned
  unmarshalled,            \* whether the call ran json.Unmarshal on the body
  calls,                   \* calls each caller has started
  stat,                    \* what key resolution has done so far
  req,                     \* an HTTP exchange given to doJSON
  resp,                    \* what doJSON made of it
  globalLevel,             \* log.globalLevel
  logged                   \* the calls of a Logger so far, and which were written

vars ==
  <<webhookPublicKeyPEM, webhookPublicKeyBase64, defaultToken, pubKey, pubKeyMu,
    pc, call, pub, verr, ret, unmarshalled, calls, stat, req, resp, globalLevel,
    logged>>

cfgVars == <<webhookPublicKeyPEM, defaultToken>>

httpVars == <<req, resp>>

logVars == <<globalLevel, logged>>

Procs == {1, 2}

\* The bank signs with key 1; key 2 is somebody else's.
BankKey == 1

Nonces == {7}

SignedHeader(k, body, r) == B64Encode(SignASN1(k, Sum256(body), r))

NoCall ==
  [body |-> <<>>, xSign |-> <<>>, parse |-> FALSE, how |-> "none", cancelled |-> FALSE]

\* ------------------------------------------------------- webhook calls
\* Mutant: the body is parsed whatever VerifyWebhook returned.
ParseAndVerifyWebhookNextAlways(e) == "parse"

\* ParseAndVerifyWebhook: the body is parsed only after VerifyWebhook
\* returned nil.
ParseAndVerifyWebhookNext(e) == IF e = Nil THEN "parse" ELSE "done"

\* VerifyWebhook has returned e to caller p.
VerifyReturns(p, parse, e) ==
  /\ verr' = [verr EXCEPT ![p] = e]
  /\ ret' = [ret EXCEPT ![p] = e]
  /\ pc' = [pc EXCEPT ![p] = IF parse THEN ParseAndVerifyWebhookNext(e) ELSE "done"]

\* Mutant: X-Sign is not trimmed before it is tested.
VerifyWebhookArgsUntrimmed(body, xSign) ==
  IF Len(body) = 0 THEN Err("ValidationError", "verify: body is empty")
  ELSE IF xSign = <<>>
    THEN Err("ValidationError", "verify: X-Sign header is empty")
  ELSE Nil

\* Mutant: X-Sign is decoded before the key is resolved.
VerifyWebhookArgsDecoded(body, xSign) ==
  IF Len(body) = 0 THEN Err("ValidationError", "verify: body is empty")
  ELSE IF TrimSpace(xSign) = <<>>
    THEN Err("ValidationError", "verify: X-Sign header is empty")
  ELSE IF ~B64Decode(TrimSpace(xSign)).ok
    THEN Err("DecodeError", "verify: base64 decode X-Sign")
  ELSE Nil

\* The checks VerifyWebhook makes before it resolves the key.
VerifyWebhookArgs(body, xSign) ==
  IF Len(body) = 0 THEN Err("ValidationError", "verify: body is empty")
  ELSE IF TrimSpace(xSign) = <<>>
    THEN Err("ValidationError", "verify: X-Sign header is empty")
  ELSE Nil

\* A caller enters VerifyWebhook, or ParseAndVerifyWebhook, with call sc.
Call(p, sc) ==
  /\ pc[p] = "idle"
  /\ calls[p] < MaxCalls
  /\ calls' = [calls EXCEPT ![p] = @ + 1]
  /\ call' = [call EXCEPT ![p] = sc]
  /\ LET e == VerifyWebhookArgs(sc.body, sc.xSign)
     IN IF e # Nil
          THEN VerifyReturns(p, sc.parse, e)
          ELSE /\ pc' = [pc EXCEPT ![p] = "lock"]
               /\ UNCHANGED <<verr, ret>>
  /\ UNCHANGED <<cfgVars, logVars, webhookPublicKeyBase64, pubKey, pubKeyMu, pub,
                 unmarshalled, stat, httpVars>>

\* Mutant: Lock does not wait for the holder.
LockNoExclusion(p) ==
  /\ pc[p] = "lock"
  /\ pubKeyMu' = p
  /\ pc' = [pc EXCEPT ![p] = "resolve"]
  /\ UNCHANGED <<cfgVars, logVars, webhookPublicKeyBase64, pubKey, call, pub, verr, ret,
                 unmarshalled, calls, stat, httpVars>>

\* c.pubKeyMu.Lock()
Lock(p) ==
  /\ pc[p] = "lock"
  /\ pubKeyMu = 0
  /\ pubKeyMu' = p
  /\ pc' = [pc EXCEPT ![p] = "resolve"]
  /\ UNCHANGED <<cfgVars, logVars, webhookPublicKeyBase64, pubKey, call, pub, verr, ret,
                 unmarshalled, calls, stat, httpVars>>

\* ensureWebhookPublicKey returns key k to caller p (deferred Unlock).
ResolveOK(p, k) ==
  /\ pub' = [pub EXCEPT ![p] = k]
  /\ pc' = [pc EXCEPT ![p] = "verify"]
  /\ pubKeyMu' = 0
  /\ UNCHANGED <<verr, ret>>

\* Mutant: a resolution that fails returns with the lock held.
ResolveFailsLocked(p, e) ==
  /\ VerifyReturns(p, call[p].parse, e)
  /\ UNCHANGED <<pubKeyMu, pub>>

\* ensureWebhookPublicKey returns error e to caller p (deferred Unlock), and
\* VerifyWebhook returns it.
ResolveFails(p, e) ==
  /\ VerifyReturns(p, call[p].parse, e)
  /\ pubKeyMu' = 0
  /\ UNCHANGED pub

\* Mutant: the base64 text is looked at before the raw PEM.
KeySourceBase64First(cached, pemBytes, text) ==
  IF cached # 0 THEN "cache"
  ELSE IF TrimSpace(text) # <<>> THEN "base64"
  ELSE IF Len(pemBytes) > 0 THEN "raw"
  ELSE "remote"

\* Mutant: the cache is not looked at.
KeySourceNoCache(cached, pemBytes, text) ==
  IF Len(pemBytes) > 0 THEN "raw"
  ELSE IF TrimSpace(text) # <<>> THEN "base64"
  ELSE "remote"

\* Mutant: a configured key that cannot be used is passed over.
KeySourceUsable(cached, pemBytes, text) ==
  IF cached # 0 THEN "cache"
  ELSE IF Len(pemBytes) > 0 /\ parseECDSAPublicKeyFromPEM(pemBytes).err = "" THEN "raw"
  ELSE IF /\ TrimSpace(text) # <<>>
          /\ B64Decode(TrimSpace(text)).ok
          /\ parseECDSAPublicKeyFromPEM(B64Decode(TrimSpace(text)).bytes).err = ""
    THEN "base64"
  ELSE "remote"

\* The source ensureWebhookPublicKey takes the key from: the cache, else the
\* raw PEM, else the base64 text, else the pubkey endpoint.
KeySource(cached, pemBytes, text) ==
  IF cached # 0 THEN "cache"
  ELSE IF Len(pemBytes) > 0 THEN "raw"
  ELSE IF TrimSpace(text) # <<>> THEN "base64"
  ELSE "remote"

\* Mutant: the token is not looked at before the fetch.
fetchTokenUnchecked(token) == Nil

\* ensureWebhookPublicKey before the fetch: the default token must be set.
fetchToken(token) ==
  IF token = <<>> THEN Err("ValidationError", "pubkey") ELSE Nil

\* ensureWebhookPublicKey from the lock to its return or to the HTTP call.
\* With a token and no payload doJSON always gets as far as c.http.Do.
Resolve(p) ==
  /\ pc[p] = "resolve"
  /\ LET raw == parseECDSAPublicKeyFromPEM(webhookPublicKeyPEM)
         text == TrimSpace(webhookPublicKeyBase64)
         dec == B64Decode(text)
         parsed == parseECDSAPublicKeyFromPEM(dec.bytes)
         token == TrimSpace(defaultToken)
         source == KeySource(pubKey, webhookPublicKeyPEM, webhookPublicKeyBase64)
     IN IF source = "cache"
          THEN /\ ResolveOK(p, pubKey)
               /\ UNCHANGED <<pubKey, stat>>
        ELSE IF source = "raw"
          THEN /\ stat' = [stat EXCEPT !.parses = @ + 1,
                                        !.writes = IF raw.err = "" THEN @ + 1 ELSE @]
               /\ IF raw.err # ""
                    THEN /\ ResolveFails(p, Err("wrapError", "pubkey: parse PEM"))
                         /\ UNCHANGED pubKey
                    ELSE /\ pubKey' = raw.key
                         /\ ResolveOK(p, raw.key)
        ELSE IF source = "base64"
          THEN IF ~dec.ok
                 THEN /\ stat' = [stat EXCEPT !.decodes = @ + 1]
                      /\ ResolveFails(p, Err("wrapError", "pubkey: base64 decode"))
                      /\ UNCHANGED pubKey
               ELSE /\ stat' = [stat EXCEPT !.decodes = @ + 1, !.parses = @ + 1,
                                             !.writes = IF parsed.err = "" THEN @ + 1 ELSE @]
                    /\ IF parsed.err # ""
                         THEN /\ ResolveFails(p, Err("wrapError", "pubkey: parse decoded PEM"))
                              /\ UNCHANGED pubKey
                         ELSE /\ pubKey' = parsed.key
                              /\ ResolveOK(p, parsed.key)
        ELSE IF fetchToken(token) # Nil
          THEN /\ ResolveFails(p, fetchToken(token))
               /\ UNCHANGED <<pubKey, stat>>
        ELSE /\ stat' = [stat EXCEPT !.fetches = @ + 1]
             /\ pc' = [pc EXCEPT ![p] = "fetch"]
             /\ UNCHANGED <<pubKey, pubKeyMu, pub, verr, ret>>
  /\ UNCHANGED <<cfgVars, logVars, webhookPublicKeyBase64, call, unmarshalled, calls,
                 httpVars>>

\* Mutant: the fetched text is kept although its PEM did not parse.
FetchReturnKeepsText(p, rt) ==
  /\ pc[p] = "fetch"
  /\ rt.build
  /\ LET Cache(text, parsed, done) ==
           IF parsed.err # ""
             THEN /\ ResolveFails(p, Err("wrapError", "pubkey: parse fetched PEM"))
                  /\ stat' = [done EXCEPT !.parses = @ + 1]
                  /\ webhookPublicKeyBase64' = text
                  /\ UNCHANGED pubKey
           ELSE /\ webhookPublicKeyBase64' = text
                /\ pubKey' = parsed.key
                /\ stat' = [done EXCEPT !.parses = @ + 1, !.writes = @ + 1]
                /\ ResolveOK(p, parsed.key)
         Decode(text, dec, done) ==
           IF text = <<>>
             THEN /\ ResolveFails(p, Err("error", "pubkey: empty key in response"))
                  /\ stat' = done
                  /\ UNCHANGED <<pubKey, webhookPublicKeyBase64>>
           ELSE IF ~dec.ok
             THEN /\ ResolveFails(p, Err("wrapError", "pubkey: base64 decode fetched key"))
                  /\ stat' = done
                  /\ UNCHANGED <<pubKey, webhookPublicKeyBase64>>
           ELSE Cache(text, parseECDSAPublicKeyFromPEM(dec.bytes), done)
         Returned(r, done) ==
           IF r.err # Nil
             THEN /\ ResolveFails(p, r.err)
                  /\ stat' = done
                  /\ UNCHANGED <<pubKey, webhookPublicKeyBase64>>
           ELSE Decode(TrimSpace(r.key), B64Decode(TrimSpace(r.key)), done)
         Counted(r) == Returned(r, [stat EXCEPT !.attempts = @ + r.attempts])
     IN Counted(doJSON(defaultToken, TrimSpace(defaultToken), <<>>, TRUE, rt))
  /\ UNCHANGED <<cfgVars, logVars, call, unmarshalled, calls, httpVars>>

\* The GET of the pubkey endpoint comes back as rt; ensureWebhookPublicKey
\* runs from there to its return.
FetchReturn(p, rt) ==
  /\ pc[p] = "fetch"
  /\ rt.build
  /\ LET Cache(text, parsed, done) ==
           IF parsed.err # ""
             THEN /\ ResolveFails(p, Err("wrapError", "pubkey: parse fetched PEM"))
                  /\ stat' = [done EXCEPT !.parses = @ + 1]
                  /\ UNCHANGED <<pubKey, webhookPublicKeyBase64>>
           ELSE /\ webhookPublicKeyBase64' = text
                /\ pubKey' = parsed.key
                /\ stat' = [done EXCEPT !.parses = @ + 1, !.writes = @ + 1]
                /\ ResolveOK(p, parsed.key)
         Decode(text, dec, done) ==
           IF text = <<>>
             THEN /\ ResolveFails(p, Err("error", "pubkey: empty key in response"))
                  /\ stat' = done
                  /\ UNCHANGED <<pubKey, webhookPublicKeyBase64>>
           ELSE IF ~dec.ok
             THEN /\ ResolveFails(p, Err("wrapError", "pubkey: base64 decode fetched key"))
                  /\ stat' = done
                  /\ UNCHANGED <<pubKey, webhookPublicKeyBase64>>
           ELSE Cache(text, parseECDSAPublicKeyFromPEM(dec.bytes), done)
         Returned(r, done) ==
           IF r.err # Nil
             THEN /\ ResolveFails(p, r.err)
                  /\ stat' = done
                  /\ UNCHANGED <<pubKey, webhookPublicKeyBase64>>
           ELSE Decode(TrimSpace(r.key), B64Decode(TrimSpace(r.key)), done)
         Counted(r) == Returned(r, [stat EXCEPT !.attempts = @ + r.attempts])
     IN Counted(doJSON(defaultToken, TrimSpace(defaultToken), <<>>, TRUE, rt))
  /\ UNCHANGED <<cfgVars, logVars, call, unmarshalled, calls, httpVars>>

\* Mutant: the digest is taken over the body without its white space.
VerifySignatureCanonical(k, body, xSign) ==
  LET sig == B64Decode(TrimSpace(xSign))
      canonical == SelectSeq(body, LAMBDA l : l.c # " ")
  IN IF ~sig.ok THEN Err("DecodeError", "verify: base64 decode X-Sign")
     ELSE IF ~VerifyASN1(k, Sum256(canonical), sig.bytes)
       THEN Err("WebhookSignatureError", "verify: invalid signature")
     ELSE Nil

\* Mutant: a signature that does not verify is reported as a decode error.
VerifySignatureAsDecode(k, body, xSign) ==
  LET sig == B64Decode(TrimSpace(xSign))
  IN IF ~sig.ok \/ ~VerifyASN1(k, Sum256(body), sig.bytes)
       THEN Err("DecodeError", "verify: base64 decode X-Sign")
     ELSE Nil

\* Mutant: X-Sign that does not decode is verified as an empty signature.
VerifySignatureOfUndecoded(k, body, xSign) ==
  LET sig == B64Decode(TrimSpace(xSign))
  IN IF ~VerifyASN1(k, Sum256(body), IF sig.ok THEN sig.bytes ELSE <<>>)
       THEN Err("WebhookSignatureError", "verify: invalid signature")
     ELSE Nil

\* VerifyWebhook from the decoding of X-Sign to its return.
VerifySignature(k, body, xSign) ==
  LET sig == B64Decode(TrimSpace(xSign))
  IN IF ~sig.ok THEN Err("DecodeError", "verify: base64 decode X-Sign")
     ELSE IF ~VerifyASN1(k, Sum256(body), sig.bytes)
       THEN Err("WebhookSignatureError", "verify: invalid signature")
     ELSE Nil

\* stat.verifies counts the calls of ecdsa.VerifyASN1: VerifyWebhook makes
\* one unless it returned at the decoding of X-Sign.
Verify(p) ==
  /\ pc[p] = "verify"
  /\ LET e == VerifySignature(pub[p], call[p].body, call[p].xSign)
     IN /\ VerifyReturns(p, call[p].parse, e)
        /\ stat' = [stat EXCEPT !.verifies = IF e.type = "DecodeError" THEN @ ELSE @ + 1]
  /\ UNCHANGED <<cfgVars, logVars, webhookPublicKeyBase64, pubKey, pubKeyMu, call, pub,
                 unmarshalled, calls, httpVars>>

\* Mutant: the error of json.Unmarshal is dropped.
ParseWebhookLenient(body) ==
  IF Len(body) = 0 THEN Err("ValidationError", "webhook: body is empty") ELSE Nil

\* client.ParseWebhook
ParseWebhook(body) ==
  IF Len(body) = 0 THEN Err("ValidationError", "webhook: body is empty")
  ELSE IF jsonUnmarshal(body).err # ""
    THEN [Err("DecodeError", "webhook: json unmarshal") EXCEPT
            !.body = trimBody(BodyText(body), BodyCapture)]
  ELSE Nil

Parse(p) ==
  /\ pc[p] = "parse"
  /\ ret' = [ret EXCEPT ![p] = ParseWebhook(call[p].body)]
  /\ unmarshalled' = [unmarshalled EXCEPT ![p] = Len(call[p].body) # 0]
  /\ pc' = [pc EXCEPT ![p] = "done"]
  /\ UNCHANGED <<cfgVars, logVars, webhookPublicKeyBase64, pubKey, pubKeyMu, call, pub,
                 verr, calls, stat, httpVars>>

\* The call is over; the caller may start another.
Return(p) ==
  /\ pc[p] = "done"
  /\ pc' = [pc EXCEPT ![p] = "idle"]
  /\ call' = [call EXCEPT ![p] = NoCall]
  /\ pub' = [pub EXCEPT ![p] = 0]
  /\ verr' = [verr EXCEPT ![p] = Nil]
  /\ ret' = [ret EXCEPT ![p] = Nil]
  /\ unmarshalled' = [unmarshalled EXCEPT ![p] = FALSE]
  /\ UNCHANGED <<cfgVars, logVars, webhookPublicKeyBase64, pubKey, pubKeyMu, calls, stat,
                 httpVars>>

\* ------------------------------------------------------------- inputs
BodyAlphabet == {Lex("{"), Lex("}"), Lex("1"), Lex(" ")}

\* The bytes of the bodies the bank signs; a changed byte is any of
\* BodyAlphabet.
SignedAlphabet == {Lex("{"), Lex(" ")}

BodiesOfLen(n) == [1..n -> SignedAlphabet]

\* Every non-empty body of at most MaxBody bytes.
SignedBodies == UNION {BodiesOfLen(n) : n \in 1..MaxBody}

\* The bodies the callers of Spec pass: none, {}, 1 and {.
CallBodies == {<<>>, <<Lex("{"), Lex("}")>>, <<Lex("1")>>, <<Lex("{")>>}

\* cancelled tells whether the context the caller itself works under has been
\* cancelled since the call began; the call has no parameter for it.
Scenario(body, xSign, parse, how) ==
  [body |-> body, xSign |-> xSign, parse |-> parse, how |-> how, cancelled |-> FALSE]

\* What may come with body b as X-Sign: nothing, blanks, the bank's
\* signature of b (bare, or with blanks around it), somebody else's
\* signature of b, and text that is not base64.
HeadersFor(b) ==
  UNION {
    { [x |-> <<>>, how |-> "empty"],
      [x |-> <<66>>, how |-> "blank"],
      [x |-> SignedHeader(BankKey, b, r), how |-> "signed"],
      [x |-> <<66>> \o SignedHeader(BankKey, b, r) \o <<67>>, how |-> "signed"],
      [x |-> SignedHeader(2, b, r), how |-> "otherkey"],
      [x |-> SetAt(SignedHeader(BankKey, b, r), 2, 65), how |-> "notbase64"] }
    : r \in Nonces }

CallScenarios ==
  UNION {{Scenario(b, h.x, parse, h.how) : h \in HeadersFor(b), parse \in BOOLEAN}
         : b \in CallBodies}

\* What the pubkey endpoint may answer.
KeyText(pemBytes) == B64Encode(pemBytes)

FetchBodies ==
  { <<>>,
    <<Lex("{")>>,
    <<Lex("1")>>,
    <<Lex("{"), Lex("}")>>,
    <<Lex("{"), KeyMember(KeyText(PEMOf(BankKey))), Lex("}")>>,
    <<Lex("{"), KeyMember(<<65, 0, 0, 0>>), Lex("}")>>,
    <<Lex("{"), KeyMember(KeyText(PEMOfRSA)), Lex("}")>> }

FetchRoundTrips ==
  {RoundTrip(TRUE, "error", 0, <<>>, <<>>)}
    \cup {RoundTrip(TRUE, "ok", 200, <<>>, b) : b \in FetchBodies}
    \cup {RoundTrip(TRUE, "ok", s, <<>>, <<>>) : s \in {403, 500}}
    \cup {RoundTrip(TRUE, "ok", 429, <<5>>, <<>>)}

\* How a client may be configured (NewClient with its options).
ConfigPEMs == {<<>>, PEMOf(BankKey), PEMOfRSA}

ConfigBase64s == {<<>>, KeyText(PEMOf(BankKey)), <<65, 0, 0, 0>>, KeyText(<<0, 0, 0>>)}

ConfigTokens == {<<>>, <<1>>}

NoRequest == [dflt |-> <<>>, token |-> <<>>, reqToken |-> <<>>, out |-> FALSE,
              rt |-> RoundTrip(TRUE, "none", 0, <<>>, <<>>), hdr |-> <<>>]

NoResponse ==
  [err |-> Nil, sent |-> FALSE, xToken |-> <<>>, key |-> <<>>, attempts |-> 0]

\* ------------------------------------------------------- specification
InitClient(pems, texts, tokens) ==
  /\ webhookPublicKeyPEM \in pems
  /\ webhookPublicKeyBase64 \in texts
  /\ defaultToken \in tokens
  /\ pubKey = 0
  /\ pubKeyMu = 0
  /\ pc = [p \in Procs |-> "idle"]
  /\ call = [p \in Procs |-> NoCall]
  /\ pub = [p \in Procs |-> 0]
  /\ verr = [p \in Procs |-> Nil]
  /\ ret = [p \in Procs |-> Nil]
  /\ unmarshalled = [p \in Procs |-> FALSE]
  /\ calls = [p \in Procs |-> 0]
  /\ stat = [fetches |-> 0, decodes |-> 0, parses |-> 0, writes |-> 0,
             verifies |-> 0, attempts |-> 0]
  /\ globalLevel = 0
  /\ logged = <<>>

Init ==
  /\ InitClient(ConfigPEMs, ConfigBase64s, ConfigTokens)
  /\ req = NoRequest
  /\ resp = NoResponse

\* The calls of the concurrent callers: a signed {} to verify and parse, one
\* signed by somebody else, one whose X-Sign is not base64, and an empty one.
ConcurrentScenarios ==
  {sc \in CallScenarios :
     \/ /\ sc.body = <<Lex("{"), Lex("}")>>
        /\ sc.parse
        /\ sc.how \in {"otherkey", "notbase64"}
     \/ /\ sc.body = <<Lex("{"), Lex("}")>>
        /\ sc.parse
        /\ sc.xSign = SignedHeader(BankKey, sc.body, 7)
     \/ /\ sc.body = <<>>
        /\ ~sc.parse
        /\ sc.how = "otherkey"}

NextOf(callers, scenarios) ==
  \/ \E p \in callers, sc \in scenarios : Call(p, sc)
  \/ \E p \in callers : Lock(p)
  \/ \E p \in callers : Resolve(p)
  \/ \E p \in callers, rt \in FetchRoundTrips : FetchReturn(p, rt)
  \/ \E p \in callers : Verify(p)
  \/ \E p \in callers : Parse(p)
  \/ \E p \in callers : Return(p)

\* Concurrent callers on one client.
Next == NextOf(Procs, ConcurrentScenarios)

Spec == Init /\ [][Next]_vars

\* Every call goes on: sync.Mutex hands the lock to a caller that waits for
\* it, each HTTP call returns, and a caller that can take its next step
\* takes it.
Fairness ==
  \A p \in Procs :
    /\ SF_vars(Lock(p))
    /\ WF_vars(Resolve(p))
    /\ WF_vars(\E rt \in FetchRoundTrips : FetchReturn(p, rt))
    /\ WF_vars(Verify(p))
    /\ WF_vars(Parse(p))

\* Two callers with the bank's signed {}, on every client.
LiveScenarios ==
  {sc \in CallScenarios :
     /\ sc.body = <<Lex("{"), Lex("}")>>
     /\ sc.parse
     /\ sc.xSign = SignedHeader(BankKey, sc.body, 7)}

NextLive == NextOf(Procs, LiveScenarios)

SpecLive == Init /\ [][NextLive]_vars /\ Fairness

\* One caller, every kind of call.
NextCall == NextOf({1}, CallScenarios)

SpecCall == Init /\ [][NextCall]_vars

\* ------------------------------------------------ caller contexts
\* Mutant: the call ends with the error of the cancelled context.
CancelAborts(p) ==
  /\ pc[p] \in {"lock", "fetch"}
  /\ ~call[p].cancelled
  /\ call' = [call EXCEPT ![p].cancelled = TRUE]
  /\ verr' = [verr EXCEPT ![p] = Err("canceled", "context canceled")]
  /\ ret' = [ret EXCEPT ![p] = Err("canceled", "context canceled")]
  /\ pc' = [pc EXCEPT ![p] = "done"]
  /\ pubKeyMu' = IF pubKeyMu = p THEN 0 ELSE pubKeyMu
  /\ UNCHANGED <<cfgVars, logVars, webhookPublicKeyBase64, pubKey, pub, unmarshalled,
                 calls, stat, httpVars>>

\* The context of caller p is cancelled while p waits for the mutex or for
\* the fetch.  VerifyWebhook resolves the key under context.Background(), so
\* nothing of the call changes.
Cancel(p) ==
  /\ pc[p] \in {"lock", "fetch"}
  /\ ~call[p].cancelled
  /\ call' = [call EXCEPT ![p].cancelled = TRUE]
  /\ UNCHANGED <<cfgVars, logVars, webhookPublicKeyBase64, pubKey, pubKeyMu, pc, pub, verr,
                 ret, unmarshalled, calls, stat, httpVars>>

\* Two callers of a client that must fetch its key, each with a signed body.
CtxScenarios ==
  {sc \in CallScenarios :
     /\ sc.body = <<Lex("{"), Lex("}")>>
     /\ sc.xSign = SignedHeader(BankKey, sc.body, 7)}

InitCtx ==
  /\ InitClient({<<>>}, {<<>>}, {<<1>>})
  /\ req = NoRequest
  /\ resp = NoResponse

NextCtx ==
  \/ NextOf(Procs, CtxScenarios)
  \/ \E p \in Procs : Cancel(p)

SpecCtx == InitCtx /\ [][NextCtx]_vars

\* ------------------------------------------- signature round trips
\* The bank signs body b; what arrives is b and its signature, or one of
\* them with a single byte changed: a byte of the body, a byte of the
\* signature before it was encoded, or a character of the X-Sign text.
OtherBytes(v) == {(v + 1) % 256}

OtherChars(c) == {64, 65, 66, (c + 1) % 64} \ {c}

RoundTripsOf(b, r) ==
  LET sig == SignASN1(BankKey, Sum256(b), r)
      hdr == B64Encode(sig)
  IN {Scenario(b, hdr, parse, "signed") : parse \in BOOLEAN}
       \cup UNION {{Scenario(SetAt(b, i, c), hdr, FALSE, "bodybyte") :
                      c \in BodyAlphabet \ {b[i]}} : i \in 1..Len(b)}
       \cup UNION {{Scenario(b, B64Encode(SetAt(sig, i, v)), FALSE, "sigbyte") :
                      v \in OtherBytes(sig[i])} : i \in 1..Len(sig)}
       \cup UNION {{Scenario(b, SetAt(hdr, i, c), FALSE, "hdrchar") :
                      c \in OtherChars(hdr[i])} : i \in 1..Len(hdr)}

SignatureScenarios == UNION {RoundTripsOf(b, r) : b \in SignedBodies, r \in Nonces}

\* A client that holds, or can fetch, the bank's key.
InitSig ==
  /\ InitClient({<<>>, PEMOf(BankKey)}, {<<>>, KeyText(PEMOf(BankKey))}, {<<1>>})
  /\ req = NoRequest
  /\ resp = NoResponse

NextSig == NextOf({1}, SignatureScenarios)

SpecSig == InitSig /\ [][NextSig]_vars

\* --------------------------------------------------- HTTP exchanges
Statuses ==
  {100, 199, 200, 201, 204, 299, 300, 301, 400, 401, 402, 403, 404, 405, 418,
   429, 499, 500, 503, 599, 600, 999}

\* Retry-After headers with what the sender meant: a count of seconds
\* (its digits in n, neg for a minus sign), an HTTP-date, or neither.
RetryHeader(x, means, neg, n) == [x |-> x, means |-> means, neg |-> neg, n |-> n]

RetryHeaders ==
  { RetryHeader(<<>>, "none", FALSE, <<>>),
    RetryHeader(<<66>>, "none", FALSE, <<>>),
    RetryHeader(<<120>>, "none", FALSE, <<>>),
    RetryHeader(<<5, 120>>, "none", FALSE, <<>>),
    RetryHeader(<<5, 66, 5>>, "none", FALSE, <<>>),
    RetryHeader(<<0>>, "seconds", FALSE, <<0>>),
    RetryHeader(<<5>>, "seconds", FALSE, <<5>>),
    RetryHeader(<<66, 5, 66>>, "seconds", FALSE, <<5>>),
    RetryHeader(<<43, 5>>, "seconds", FALSE, <<5>>),
    RetryHeader(<<1, 2, 0>>, "seconds", FALSE, <<1, 2, 0>>),
    RetryHeader(<<45, 3>>, "seconds", TRUE, <<3>>),
    RetryHeader(<<9, 2, 2, 3, 3, 7, 2, 0, 3, 6>>, "seconds", FALSE,
                <<9, 2, 2, 3, 3, 7, 2, 0, 3, 6>>),
    RetryHeader(<<9, 2, 2, 3, 3, 7, 2, 0, 3, 7>>, "seconds", FALSE,
                <<9, 2, 2, 3, 3, 7, 2, 0, 3, 7>>),
    RetryHeader(<<200>>, "date", TRUE, <<3, 0>>),
    RetryHeader(<<202>>, "date", FALSE, <<3, 0>>) }

\* Bodies of error responses: objects with or without errCode (a number,
\* a string, null, true), errText and message, and bodies that are not
\* objects.
ErrCodeValues ==
  {<<8, 2>>, <<34, 8, 2, 34>>, <<34, 66, 8, 2, 34>>, <<8, 2, 46, 0>>, <<8, 46, 5>>,
   <<1, 0, 6, 6>>, <<34, 34>>, <<110>>, <<116>>}

Members(name, values) == {<<>>} \cup {<<[c |-> name, v |-> v]>> : v \in values}

ErrorBodies ==
  {<<Lex("1")>>, <<Lex(" "), Lex("1")>>, <<Lex("{")>>, <<Lex("}"), Lex("{")>>}
    \cup {<<Lex("{")>> \o code \o text \o msg \o <<Lex("}")>> :
            code \in Members("errCode", ErrCodeValues),
            text \in Members("errText", {<<34, 120, 120, 34>>}),
            msg \in Members("message", {<<34, 120, 34>>, <<5>>})}

ErrorStatuses == {402, 500}

HTTPRoundTrips ==
  {RoundTrip(FALSE, "ok", 0, <<>>, <<>>), RoundTrip(TRUE, "error", 0, <<>>, <<>>)}
    \cup {RoundTrip(TRUE, "ok", s, <<>>, b) : s \in Statuses, b \in FetchBodies}
    \cup {RoundTrip(TRUE, "ok", s, <<>>, b) : s \in ErrorStatuses, b \in ErrorBodies}

HTTPRequests ==
  {[dflt |-> d, token |-> t, reqToken |-> <<>>, out |-> o, rt |-> rt, hdr |-> h] :
     d \in {<<>>, <<1>>}, t \in {<<>>, <<2>>}, o \in BOOLEAN,
     rt \in HTTPRoundTrips, h \in RetryHeaders}

\* The values of a description field of an error body: a string with
\* white space around its content (130 + i for the field i), a blank
\* string, the number 5 and null.
FieldValues(i) == {<<34, 66, 130 + i, 66, 34>>, <<34, 66, 34>>, <<5>>, <<110>>}

\* Error bodies with one or two of the description fields, the later field
\* first in the text, with the same field twice, and with the key Message,
\* which is the field Message of apiErrorBody and no key that
\* parseAPIErrorBody looks up in the map.
DescriptionBodies ==
  UNION {{<<Lex("{"), [c |-> DescriptionFields[i], v |-> v], Lex("}")>> :
            v \in FieldValues(i)} : i \in 1..Len(DescriptionFields)}
    \cup {<<Lex("{"), [c |-> "Message", v |-> v], Lex("}")>> : v \in FieldValues(3)}
    \cup {<<Lex("{"), [c |-> "Message", v |-> v], [c |-> "key", v |-> <<120>>], Lex("}")>> :
            v \in FieldValues(3)}
    \cup UNION {{<<Lex("{"), [c |-> DescriptionFields[j], v |-> w],
                   [c |-> DescriptionFields[i], v |-> v], Lex("}")>> :
                   v \in FieldValues(i), w \in FieldValues(j)} :
                  i \in 1..Len(DescriptionFields), j \in 1..Len(DescriptionFields)}

DescriptionRequests ==
  {[dflt |-> <<1>>, token |-> <<>>, reqToken |-> <<>>, out |-> TRUE,
    rt |-> RoundTrip(TRUE, "ok", st, <<>>, b), hdr |-> RetryHeader(<<>>, "none", FALSE, <<>>)] :
     st \in {400}, b \in DescriptionBodies \cup ErrorBodies \cup {<<>>}}

\* One call of doJSON on the exchange req.
DoJSON ==
  /\ resp = NoResponse
  /\ resp' = doJSON(req.dflt, req.token, req.reqToken, req.out,
                    [req.rt EXCEPT !.retryAfter = req.hdr.x])
  /\ UNCHANGED <<cfgVars, logVars, webhookPublicKeyBase64, pubKey, pubKeyMu, pc, call, pub,
                 verr, ret, unmarshalled, calls, stat, req>>

InitHTTP ==
  /\ InitClient({<<>>}, {<<>>}, {<<>>})
  /\ req \in HTTPRequests
  /\ resp = NoResponse

NextHTTP == DoJSON

SpecHTTP == InitHTTP /\ [][NextHTTP]_vars

\* doJSON on error responses with the bodies above.
InitDescription ==
  /\ InitClient({<<>>}, {<<>>}, {<<>>})
  /\ req \in DescriptionRequests
  /\ resp = NoResponse

SpecDescription == InitDescription /\ [][NextHTTP]_vars

\* Bodies around BodyCapture bytes: an object with one long message, with
\* and without its closing brace, of BodyCapture - 1 to BodyCapture + 2
\* bytes; and two short ones.
LongText(n) == [i \in 1..n |-> 120]

LongMessage(n) == [c |-> "message", v |-> <<34>> \o LongText(n) \o <<34>>]

CaptureBodies ==
  {<<Lex("{")>>, <<Lex("{"), Lex("}")>>}
    \cup {<<Lex("{"), LongMessage(BodyCapture - n)>> \o close :
            n \in 6..8, close \in {<<>>, <<Lex("}")>>}}

CaptureRequests ==
  {[dflt |-> <<1>>, token |-> <<>>, reqToken |-> <<>>, out |-> TRUE,
    rt |-> RoundTrip(TRUE, "ok", st, <<>>, b), hdr |-> RetryHeader(<<>>, "none", FALSE, <<>>)] :
     st \in {200, 400}, b \in CaptureBodies}

\* ParseWebhook called on its own, on a body the caller did not verify.
CallParseWebhook(p, body) ==
  /\ pc[p] = "idle"
  /\ calls[p] < MaxCalls
  /\ calls' = [calls EXCEPT ![p] = @ + 1]
  /\ call' = [call EXCEPT ![p] = [NoCall EXCEPT !.body = body, !.parse = TRUE,
                                                !.how = "parse"]]
  /\ pc' = [pc EXCEPT ![p] = "parse"]
  /\ UNCHANGED <<cfgVars, logVars, webhookPublicKeyBase64, pubKey, pubKeyMu, pub, verr,
                 ret, unmarshalled, stat, httpVars>>

InitCapture ==
  /\ InitClient({<<>>}, {<<>>}, {<<>>})
  /\ req \in CaptureRequests
  /\ resp = NoResponse

NextCapture ==
  \/ DoJSON
  \/ \E body \in CaptureBodies : CallParseWebhook(1, body)
  \/ Parse(1)
  \/ Return(1)

SpecCapture == InitCapture /\ [][NextCapture]_vars

\* ------------------------------------------------------- API operations
\* strings.HasPrefix, strings.Index and strings.LastIndex (0: not found).
HasPrefix(s, prefix) == Len(s) >= Len(prefix) /\ SubSeq(s, 1, Len(prefix)) = prefix

Index(s, c) ==
  IF \E i \in 1..Len(s) : s[i] = c
    THEN CHOOSE i \in 1..Len(s) : s[i] = c /\ \A j \in 1..(i - 1) : s[j] # c
    ELSE 0

LastIndex(s, c) ==
  IF \E i \in 1..Len(s) : s[i] = c
    THEN CHOOSE i \in 1..Len(s) : s[i] = c /\ \A j \in (i + 1)..Len(s) : s[j] # c
    ELSE 0

\* The text of a URL: 104 the letter h, 58 ':', 47 '/', 37 '%', 66 a space.
\* net/url getScheme: [scheme, rest, err].
getScheme(rawURL) ==
  LET stop == IF \E i \in 1..Len(rawURL) : rawURL[i] # 104
                THEN CHOOSE i \in 1..Len(rawURL) :
                       rawURL[i] # 104 /\ \A j \in 1..(i - 1) : rawURL[j] = 104
                ELSE 0
  IN IF stop = 0 \/ rawURL[stop] # 58
       THEN [scheme |-> <<>>, rest |-> rawURL, err |-> FALSE]
     ELSE IF stop = 1 THEN [scheme |-> <<>>, rest |-> <<>>, err |-> TRUE]
     ELSE [scheme |-> SubSeq(rawURL, 1, stop - 1),
           rest |-> SubSeq(rawURL, stop + 1, Len(rawURL)), err |-> FALSE]

\* net/url parseHost: a port after the last ':' is digits only, and the
\* host has no '%' that is not an escape and no space.
parseHost(host) ==
  /\ LastIndex(host, 58) # 0 => LastIndex(host, 58) = Len(host)
  /\ \A i \in 1..Len(host) : host[i] \notin {37, 66}

\* net/url.Parse: [err, abs], abs what IsAbs says of the URL parsed.
urlParse(rawURL) ==
  LET s == getScheme(rawURL)
      segment == IF Index(s.rest, 47) = 0 THEN s.rest
                 ELSE SubSeq(s.rest, 1, Index(s.rest, 47) - 1)
      after == SubSeq(s.rest, 3, Len(s.rest))
      authority == IF Index(after, 47) = 0 THEN after
                   ELSE SubSeq(after, 1, Index(after, 47) - 1)
      path == IF ~HasPrefix(s.rest, <<47, 47>>) THEN s.rest
              ELSE IF Index(after, 47) = 0 THEN <<>>
              ELSE SubSeq(after, Index(after, 47), Len(after))
      R(err) == [err |-> err, abs |-> ~err /\ s.scheme # <<>>]
  IN IF s.err THEN R(TRUE)
     ELSE IF ~HasPrefix(s.rest, <<47>>) /\ s.scheme # <<>> THEN R(FALSE)
     ELSE IF ~HasPrefix(s.rest, <<47>>) /\ Index(segment, 58) # 0 THEN R(TRUE)
     ELSE IF HasPrefix(s.rest, <<47, 47>>) /\ ~parseHost(authority) THEN R(TRUE)
     ELSE IF Index(path, 37) # 0 THEN R(TRUE)
     ELSE R(FALSE)

\* json.Unmarshal into InvoiceCreateResponse: its PageURL.
PageURLOf(body) ==
  LET pages == SelectSeq(JSONMembers(body), LAMBDA l : l.c = "pageUrl")
  IN IF pages = <<>> THEN <<>> ELSE pages[Len(pages)].v

\* Mutant: the client's default token comes before the request's.
resolveTokenDefaultFirst(nilRequest, token, dflt) ==
  IF TrimSpace(dflt) # <<>> THEN TrimSpace(dflt)
  ELSE IF nilRequest THEN <<>>
  ELSE TrimSpace(token)

\* client.resolveToken, token the request's Merchant.Token.
resolveToken(nilRequest, token, dflt) ==
  IF ~nilRequest /\ TrimSpace(token) # <<>> THEN TrimSpace(token)
  ELSE TrimSpace(dflt)

\* Mutant: the DryRun option is not looked at.
isDryRunNever(dryRun) == FALSE

\* runOptions.isDryRun, dryRun whether the DryRun option was given.
isDryRun(dryRun) == dryRun

\* runOptions.handleDryRun: the invocations of the handler, each with the
\* endpoint (its path; the base URL is left out) and the payload it is
\* given (kind "nil" for a nil payload).
handleDryRun(dryRun, endpoint, payload) ==
  IF dryRun THEN <<[endpoint |-> endpoint, payload |-> payload]>> ELSE <<>>

\* What an operation gave its caller, and what it did on the way: the
\* error, the result ("nil", "resp" or "url"), the invocations of the
\* dry-run handler, whether and how many times a request was given to the
\* HTTP client, its X-Token, and the PageURL of the response.
Outcome(err, value, handled, ex, pageUrl) ==
  [err |-> err, value |-> value, handled |-> handled, sent |-> ex.sent,
   attempts |-> ex.attempts, xToken |-> IF ex.sent THEN ex.xToken ELSE <<>>,
   pageUrl |-> pageUrl]

Invalid(op) == Outcome(Err("ValidationError", op), "nil", <<>>, NoResponse, <<>>)

\* What follows the validation in each operation: the dry run or doJSON.
Exchange(dflt, token, r, endpoint, payload, pageUrl) ==
  LET Returned(ex) ==
        IF ex.err # Nil THEN Outcome(ex.err, "nil", <<>>, ex, <<>>)
        ELSE Outcome(Nil, "resp", <<>>, ex, pageUrl)
  IN IF isDryRun(r.dryRun)
       THEN Outcome(Nil, "nil", handleDryRun(r.dryRun, endpoint, payload),
                    NoResponse, <<>>)
     ELSE Returned(doJSON(dflt, token,
                          IF r.nilRequest THEN <<>> ELSE TrimSpace(r.token), TRUE, r.rt))

\* client.Verification
Verification(dflt, r) ==
  LET token == resolveToken(r.nilRequest, r.token, dflt)
  IN IF r.nilRequest THEN Invalid("verification")
     ELSE IF token = <<>> THEN Invalid("verification")
     ELSE IF r.amount <= 0 THEN Invalid("verification")
     ELSE IF r.saveCard /\ TrimSpace(r.walletID) = <<>> THEN Invalid("verification")
     ELSE Exchange(dflt, token, r, "/api/merchant/invoice/create",
                   [kind |-> "invoice", amount |-> r.amount,
                    walletId |-> IF r.saveCard THEN TrimSpace(r.walletID) ELSE <<>>],
                   PageURLOf(r.rt.body))

\* Mutant: a relative pageUrl is returned like an absolute one.
VerificationLinkAnyURL(dflt, r) ==
  LET Link(v, parsed) ==
        IF parsed.err THEN [v EXCEPT !.err = Err("wrapError", "verification"),
                                     !.value = "nil"]
        ELSE [v EXCEPT !.value = "url"]
      Returned(v) ==
        IF v.err # Nil THEN v
        ELSE IF v.value = "nil" THEN v
        ELSE Link(v, urlParse(TrimSpace(v.pageUrl)))
  IN Returned(Verification(dflt, r))

\* client.VerificationLink
VerificationLink(dflt, r) ==
  LET Link(v, parsed) ==
        IF parsed.err THEN [v EXCEPT !.err = Err("wrapError", "verification"),
                                     !.value = "nil"]
        ELSE IF ~parsed.abs THEN [v EXCEPT !.err = Err("error", "verification"),
                                           !.value = "nil"]
        ELSE [v EXCEPT !.value = "url"]
      Returned(v) ==
        IF v.err # Nil THEN v
        ELSE IF v.value = "nil" THEN v
        ELSE Link(v, urlParse(TrimSpace(v.pageUrl)))
  IN Returned(Verification(dflt, r))

\* client.Payment
Payment(dflt, r) ==
  LET token == resolveToken(r.nilRequest, r.token, dflt)
  IN IF r.nilRequest THEN Invalid("payment")
     ELSE IF token = <<>> THEN Invalid("payment")
     ELSE IF TrimSpace(r.cardToken) = <<>> THEN Invalid("payment")
     ELSE IF r.amount <= 0 THEN Invalid("payment")
     ELSE IF r.initKind \in {"", " "} THEN Invalid("payment")
     ELSE IF r.initKind = "client" /\ TrimSpace(r.redirectURL) = <<>>
       THEN Invalid("payment")
     ELSE Exchange(dflt, token, r, "/api/merchant/wallet/payment",
                   [kind |-> "payment", amount |-> r.amount,
                    cardToken |-> TrimSpace(r.cardToken),
                    initiationKind |-> r.initKind], <<>>)

\* client.Status
Status(dflt, r) ==
  LET token == resolveToken(r.nilRequest, r.token, dflt)
  IN IF r.nilRequest THEN Invalid("status")
     ELSE IF token = <<>> THEN Invalid("status")
     ELSE IF TrimSpace(r.invoiceID) = <<>> THEN Invalid("status")
     ELSE Exchange(dflt, token, r, "/api/merchant/invoice/status?invoiceId=",
                   [kind |-> "map", invoiceId |-> TrimSpace(r.invoiceID)], <<>>)

\* client.PublicKey: a nil request is an empty one.
PublicKey(dflt, r) ==
  LET token == resolveToken(r.nilRequest, r.token, dflt)
  IN IF token = <<>> THEN Invalid("pubkey")
     ELSE Exchange(dflt, token, r, "/api/merchant/pubkey", [kind |-> "nil"], <<>>)

Operations == {"Verification", "VerificationLink", "Payment", "Status", "PublicKey"}

Operation(dflt, r) ==
  CASE r.op = "Verification" -> Verification(dflt, r)
    [] r.op = "VerificationLink" -> VerificationLink(dflt, r)
    [] r.op = "Payment" -> Payment(dflt, r)
    [] r.op = "Status" -> Status(dflt, r)
    [] r.op = "PublicKey" -> PublicKey(dflt, r)

\* ------------------------------------------------------ API invocations
\* A request and the run options of one invocation, with the round trip
\* the transport will make of it.
APIRequest(op, nilRequest, token, amount, saveCard, walletID, cardToken, initKind, redirectURL, invoiceID, dryRun, rt) ==
  [op |-> op, nilRequest |-> nilRequest, token |-> token, amount |-> amount,
   saveCard |-> saveCard, walletID |-> walletID, cardToken |-> cardToken,
   initKind |-> initKind, redirectURL |-> redirectURL, invoiceID |-> invoiceID,
   dryRun |-> dryRun, rt |-> rt]

PageURLs ==
  {<<>>, <<104, 58, 47, 47, 104>>, <<66, 104, 58, 47, 47, 104, 66>>, <<47, 104>>,
   <<104>>, <<58, 47>>, <<104, 58, 47, 37>>, <<104, 58, 104>>,
   <<104, 58, 47, 47, 104, 58, 104>>}

PageBody(u) == <<Lex("{"), [c |-> "pageUrl", v |-> u], Lex("}")>>

Accepted == RoundTrip(TRUE, "ok", 200, <<>>, PageBody(<<104, 58, 47, 47, 104>>))

FailingRoundTrips ==
  {RoundTrip(FALSE, "ok", 0, <<>>, <<>>), RoundTrip(TRUE, "error", 0, <<>>, <<>>),
   RoundTrip(TRUE, "ok", 429, <<>>, <<>>), RoundTrip(TRUE, "ok", 500, <<>>, <<>>),
   RoundTrip(TRUE, "ok", 200, <<>>, <<>>)}

InvoiceRoundTrips ==
  FailingRoundTrips \cup {RoundTrip(TRUE, "ok", 200, <<>>, PageBody(u)) : u \in PageURLs}

RequestTokens == {<<>>, <<66>>, <<66, 2>>}

\* A request every operation accepts, and the ways to spoil it.
Valid(op, token, dryRun, rt) ==
  APIRequest(op, FALSE, token, 100, TRUE, <<5>>, <<3>>, "client", <<104>>, <<4>>,
             dryRun, rt)

Spoilt(op, dryRun) ==
  LET v == Valid(op, <<66, 2>>, dryRun, Accepted)
      plain == [v EXCEPT !.saveCard = FALSE, !.walletID = <<>>,
                         !.initKind = "merchant", !.redirectURL = <<>>]
  IN {[v EXCEPT !.nilRequest = TRUE], plain}
       \cup (IF op \in {"Verification", "VerificationLink"}
              THEN {[v EXCEPT !.amount = 0], [v EXCEPT !.walletID = <<66>>]}
            ELSE IF op = "Payment"
              THEN {[v EXCEPT !.amount = -1], [v EXCEPT !.cardToken = <<>>],
                    [v EXCEPT !.initKind = " "], [v EXCEPT !.redirectURL = <<66>>]}
            ELSE IF op = "Status" THEN {[v EXCEPT !.invoiceID = <<66>>]}
            ELSE {})

RequestsOf(op) ==
  {Valid(op, t, FALSE, rt) : t \in RequestTokens,
     rt \in IF op \in {"Verification", "VerificationLink"}
              THEN InvoiceRoundTrips ELSE FailingRoundTrips \cup {Accepted}}
    \cup {Valid(op, t, TRUE, Accepted) : t \in RequestTokens}
    \cup UNION {Spoilt(op, d) : d \in BOOLEAN}

NoAPIRequest ==
  APIRequest("none", TRUE, <<>>, 0, FALSE, <<>>, <<>>, "", <<>>, <<>>, FALSE,
             RoundTrip(TRUE, "none", 0, <<>>, <<>>))

NoOutcome == Outcome(Nil, "nil", <<>>, NoResponse, <<>>)

\* The invocation before the present one: its operation, the requests it
\* gave to the HTTP client, and whether the present one came with its request.
NoInvocation == [op |-> "none", attempts |-> 0, same |-> FALSE]

SameRequest(a, b) == [a EXCEPT !.op = "any"] = [b EXCEPT !.op = "any"]

\* Mutant: a PublicKey call that succeeded caches the bank's key.
InvokeCaching(r) ==
  LET Kept(out) ==
        /\ resp' = [out |-> out,
                    before |-> [op |-> req.op, attempts |-> resp.out.attempts,
                                same |-> SameRequest(req, r)]]
        /\ pubKey' = IF r.op = "PublicKey" /\ out.err = Nil /\ out.sent
                       THEN BankKey ELSE pubKey
  IN /\ pc[1] = "idle"
     /\ calls[1] < MaxCalls
     /\ calls' = [calls EXCEPT ![1] = @ + 1]
     /\ req' = r
     /\ Kept(Operation(defaultToken, r))
     /\ UNCHANGED <<cfgVars, logVars, webhookPublicKeyBase64, pubKeyMu, pc, call, pub,
                    verr, ret, unmarshalled, stat>>

\* The caller invokes the operation r.op with the request and options r.
Invoke(r) ==
  /\ pc[1] = "idle"
  /\ calls[1] < MaxCalls
  /\ calls' = [calls EXCEPT ![1] = @ + 1]
  /\ req' = r
  /\ resp' = [out |-> Operation(defaultToken, r),
              before |-> [op |-> req.op, attempts |-> resp.out.attempts,
                          same |-> SameRequest(req, r)]]
  /\ UNCHANGED <<cfgVars, logVars, webhookPublicKeyBase64, pubKey, pubKeyMu, pc, call, pub,
                 verr, ret, unmarshalled, stat>>

InvokeVerification == \E r \in RequestsOf("Verification") : Invoke(r)

InvokeVerificationLink == \E r \in RequestsOf("VerificationLink") : Invoke(r)

InvokePayment == \E r \in RequestsOf("Payment") : Invoke(r)

InvokeStatus == \E r \in RequestsOf("Status") : Invoke(r)

InvokePublicKey == \E r \in RequestsOf("PublicKey") : Invoke(r)

\* The webhook call that makes the client fetch the bank's key.
FetchingScenarios ==
  {sc \in CallScenarios : sc.how = "signed" /\ sc.body = <<Lex("{"), Lex("}")>>}

InitAPI ==
  /\ InitClient({<<>>}, {<<>>}, ConfigTokens)
  /\ req = NoAPIRequest
  /\ resp = [out |-> NoOutcome, before |-> NoInvocation]

NextAPI ==
  \/ InvokeVerification
  \/ InvokeVerificationLink
  \/ InvokePayment
  \/ InvokeStatus
  \/ InvokePublicKey
  \/ NextOf({1}, FetchingScenarios)

SpecAPI == InitAPI /\ [][NextAPI]_vars

\* ------------------------------------------------------ payment errors
\* The statuses the API documents, as InvoiceStatus values.
InvoiceCreated == "created"

InvoiceProcessing == "processing"

InvoiceSuccess == "success"

InvoiceFailure == "failure"

InvoiceReversed == "reversed"

InvoiceExpired == "expired"

\* InvoiceStatus.IsSuccess
IsSuccess(s) == s = InvoiceSuccess

\* Mutant: an expired invoice is not a failure.
IsFailureNotExpired(s) == s = InvoiceFailure \/ s = InvoiceReversed

\* InvoiceStatus.IsFailure
IsFailure(s) == s = InvoiceFailure \/ s = InvoiceReversed \/ s = InvoiceExpired

\* InvoiceStatus.IsPending
IsPending(s) == s = InvoiceCreated \/ s = InvoiceProcessing

\* InvoiceStatus.IsFinal
IsFinal(s) == IsSuccess(s) \/ IsFailure(s)

\* The codes of PaymentErrorCatalog that the inputs use: 8001 and 8002.
PaymentErrorCatalog == {<<8, 0, 0, 1>>, <<8, 0, 0, 2>>}

\* LookupPaymentErrorMetas: whether the catalogue has an entry for code.
LookupPaymentErrorMetas(code) ==
  TrimSpace(code) # <<>> /\ TrimSpace(code) \in PaymentErrorCatalog

\* fmt.Sprintf("payment status indicates failure: %s", status): the phrase
\* and the status that follows it.
StatusReason(status) == <<"payment status indicates failure: ", status>>

NoPaymentError ==
  [nil |-> TRUE, InvoiceID |-> <<>>, Status |-> "", ErrCode |-> <<>>,
   FailureReason |-> <<>>, Metas |-> FALSE]

\* Mutant: the code and the reason are taken as they come.
NewPaymentErrorUntrimmed(invoiceID, status, errCode, failureReason) ==
  IF errCode = <<>> /\ failureReason = <<>> /\ ~IsFailure(status) THEN NoPaymentError
  ELSE [nil |-> FALSE, InvoiceID |-> TrimSpace(invoiceID), Status |-> status,
        ErrCode |-> errCode,
        FailureReason |-> IF errCode = <<>> /\ failureReason = <<>>
                            THEN StatusReason(status) ELSE failureReason,
        Metas |-> LookupPaymentErrorMetas(errCode)]

\* NewPaymentError: the *PaymentError, nil |-> TRUE for a nil pointer.
NewPaymentError(invoiceID, status, errCode, failureReason) ==
  LET Built(code, reason) ==
        IF code = <<>> /\ reason = <<>> /\ ~IsFailure(status) THEN NoPaymentError
        ELSE [nil |-> FALSE, InvoiceID |-> TrimSpace(invoiceID), Status |-> status,
              ErrCode |-> code,
              FailureReason |-> IF code = <<>> /\ reason = <<>>
                                  THEN StatusReason(status) ELSE reason,
              Metas |-> LookupPaymentErrorMetas(code)]
  IN Built(TrimSpace(errCode), TrimSpace(failureReason))

\* InvoiceStatusResponse.PaymentError and WalletPaymentResponse.PaymentError:
\* r.nil for a nil response, errCode and failureReason <<>> for nil pointers;
\* a wallet payment response has no errCode.
PaymentError(r) ==
  IF r.nil THEN NoPaymentError
  ELSE NewPaymentError(r.invoiceID, r.status,
                       IF r.wallet THEN <<>> ELSE r.errCode, r.failureReason)

\* The status, errCode and failureReason a response can come with.
InvoiceStatuses ==
  {InvoiceCreated, InvoiceProcessing, InvoiceSuccess, InvoiceFailure,
   InvoiceReversed, InvoiceExpired, "hold", "Success", ""}

PaymentTexts == {<<>>, <<66>>, <<8, 0, 0, 1>>, <<66, 8, 0, 0, 2, 66>>, <<120>>}

PaymentResponses ==
  {[nil |-> n, wallet |-> w, invoiceID |-> <<66, 4>>, status |-> st, errCode |-> c,
    failureReason |-> f] :
     n \in BOOLEAN, w \in BOOLEAN, st \in InvoiceStatuses, c \in PaymentTexts,
     f \in PaymentTexts}

NoPaymentResult == [done |-> "no"]

\* A caller asks a response for its payment error.
AskPaymentError ==
  /\ resp = NoPaymentResult
  /\ resp' = [done |-> "PaymentError", pe |-> PaymentError(req)]
  /\ UNCHANGED <<cfgVars, logVars, webhookPublicKeyBase64, pubKey, pubKeyMu, pc, call, pub,
                 verr, ret, unmarshalled, calls, stat, req>>

\* A caller asks the status of a response what it is.
AskStatus ==
  /\ resp = NoPaymentResult
  /\ resp' = [done |-> "Status", IsSuccess |-> IsSuccess(req.status),
              IsFailure |-> IsFailure(req.status),
              IsPending |-> IsPending(req.status), IsFinal |-> IsFinal(req.status)]
  /\ UNCHANGED <<cfgVars, logVars, webhookPublicKeyBase64, pubKey, pubKeyMu, pc, call, pub,
                 verr, ret, unmarshalled, calls, stat, req>>

InitPayment ==
  /\ InitClient({<<>>}, {<<>>}, {<<>>})
  /\ req \in PaymentResponses
  /\ resp = NoPaymentResult

NextPayment == AskPaymentError \/ AskStatus

SpecPayment == InitPayment /\ [][NextPayment]_vars

\* -------------------------------------------------------------- logging
LevelNone == 0

LevelError == 1

LevelWarning == 2

LevelInfo == 3

LevelDebug == 4

LevelAll == 5

\* Mutant: a message at the configured level is not written.
levelEnabledBelow(current, level) ==
  CASE current = LevelNone -> FALSE
    [] current = LevelAll -> TRUE
    [] OTHER -> IF level < LevelError \/ level > LevelDebug THEN FALSE
                ELSE level < current

\* levelEnabled, current the value of globalLevel.Load().
levelEnabled(current, level) ==
  CASE current = LevelNone -> FALSE
    [] current = LevelAll -> TRUE
    [] OTHER -> IF level < LevelError \/ level > LevelDebug THEN FALSE
                ELSE level <= current

\* The methods of Logger with the level and the label each gives to log.
LoggerMethods ==
  {[name |-> "Debug", level |-> LevelDebug, label |-> "DEBUG"],
   [name |-> "Info", level |-> LevelInfo, label |-> "INFO"],
   [name |-> "Warn", level |-> LevelWarning, label |-> "WARN"],
   [name |-> "Warning", level |-> LevelWarning, label |-> "WARN"],
   [name |-> "Error", level |-> LevelError, label |-> "ERROR"],
   [name |-> "All", level |-> LevelDebug, label |-> "DEBUG"]}

\* The Level values SetLevel is called with (an int32).
LevelArguments == (0 - 1)..6

\* log.SetLevel
SetLevel(level) ==
  /\ globalLevel' = IF level < LevelNone \/ level > LevelAll THEN LevelNone ELSE level
  /\ UNCHANGED <<cfgVars, webhookPublicKeyBase64, pubKey, pubKeyMu, pc, call, pub,
                 verr, ret, unmarshalled, calls, stat, httpVars, logged>>

\* Logger.log as called by the method m: stdlog.Printf is called when the
\* level is enabled.  logged keeps the level that was configured, the
\* method and whether the message was written.
Log(m) ==
  /\ Len(logged) < MaxCalls
  /\ logged' = Append(logged, [current |-> globalLevel, method |-> m.name,
                               label |-> m.label,
                               written |-> levelEnabled(globalLevel, m.level)])
  /\ UNCHANGED <<cfgVars, webhookPublicKeyBase64, pubKey, pubKeyMu, pc, call, pub,
                 verr, ret, unmarshalled, calls, stat, httpVars, globalLevel>>

InitLog ==
  /\ InitClient({<<>>}, {<<>>}, {<<>>})
  /\ req = NoRequest
  /\ resp = NoResponse

NextLog ==
  \/ \E level \in LevelArguments : SetLevel(level)
  \/ \E m \in LoggerMethods : Log(m)

SpecLog == InitLog /\ [][NextLog]_vars

\* ================================================================ claims
Done(p) == pc[p] = "done"

\* The call of p came with the bank's signature of its body and the client
\* resolved the bank's key.
SignedAndResolved(p) ==
  /\ call[p].how = "signed"
  /\ pub[p] = BankKey
  /\ Len(call[p].body) > 0

\* C1: ParseAndVerifyWebhook decodes the body only after VerifyWebhook has
\* returned success for that body and signature; when verification fails,
\* for any reason, its error is what the call returns and the body is never
\* decoded; valid JSON with somebody else's signature fails with
\* WebhookSignatureError.
C1_VerifyBeforeParse ==
  \A p \in Procs :
    /\ unmarshalled[p] =>
         /\ verr[p] = Nil
         /\ pub[p] # 0
         /\ VerifySignature(pub[p], call[p].body, call[p].xSign) = Nil
    /\ (Done(p) /\ call[p].parse /\ verr[p] # Nil) =>
         /\ ret[p] = verr[p]
         /\ ~unmarshalled[p]
    /\ (Done(p) /\ call[p].parse /\ call[p].how = "otherkey" /\ pub[p] # 0) =>
         /\ ret[p].type = "WebhookSignatureError"
         /\ ~unmarshalled[p]

C1_Witness ==
  \E p \in Procs :
    /\ Done(p)
    /\ call[p].parse
    /\ call[p].how = "otherkey"
    /\ call[p].body = <<Lex("{"), Lex("}")>>
    /\ ret[p].type = "WebhookSignatureError"
    /\ ~unmarshalled[p]

\* C2 as stated: with a valid signature, a non-empty body that is not valid
\* JSON fails with DecodeError and every valid JSON body returns the event
\* and no error.
C2_ValidJSONDecodes ==
  \A p \in Procs :
    (Done(p) /\ call[p].parse /\ SignedAndResolved(p)) =>
      IF jsonUnmarshal(call[p].body).err = "syntax"
        THEN ret[p].type = "DecodeError"
        ELSE ret[p] = Nil

\* C2 amended: with a valid signature, a non-empty body that json.Unmarshal
\* cannot decode into the event (text that is not JSON, and JSON that is not
\* an object, such as 1) fails with DecodeError, which matches ErrDecode and
\* not ErrInvalidSignature; a body that decodes returns the event and no
\* error.
C2_DecodeAfterValidSignature ==
  \A p \in Procs :
    (Done(p) /\ call[p].parse /\ SignedAndResolved(p)) =>
      /\ unmarshalled[p]
      /\ IF jsonUnmarshal(call[p].body).err # ""
           THEN /\ ret[p].type = "DecodeError"
                /\ ErrorsIs(ret[p], "ErrDecode")
                /\ ~ErrorsIs(ret[p], "ErrInvalidSignature")
           ELSE ret[p] = Nil

C2_Witness ==
  \E p \in Procs :
    /\ Done(p)
    /\ call[p].parse
    /\ SignedAndResolved(p)
    /\ call[p].body = <<Lex("{")>>
    /\ ret[p].type = "DecodeError"

\* C3: when the cryptographic verification returns false VerifyWebhook fails
\* with a WebhookSignatureError, which matches ErrInvalidSignature and no
\* other sentinel; no validation, decode or key resolution failure of
\* VerifyWebhook matches ErrInvalidSignature.
C3_InvalidSignatureDistinct ==
  \A p \in Procs :
    /\ (Done(p) /\ pub[p] # 0 /\ call[p].how = "otherkey") =>
         /\ verr[p].type = "WebhookSignatureError"
         /\ {t \in Sentinels : ErrorsIs(verr[p], t)} = {"ErrInvalidSignature"}
    /\ (Done(p) /\ (\/ Len(call[p].body) = 0
                    \/ call[p].how \in {"empty", "blank", "notbase64"}
                    \/ pub[p] = 0)) =>
         /\ verr[p] # Nil
         /\ ~ErrorsIs(verr[p], "ErrInvalidSignature")

C3_Witness ==
  \E p \in Procs :
    /\ Done(p)
    /\ pub[p] # 0
    /\ call[p].how = "otherkey"
    /\ ErrorsIs(verr[p], "ErrInvalidSignature")

\* C4: for a client that holds the bank's public key, the base64 text of the
\* bank's signature of a non-empty body verifies, and a body that differs
\* from the signed one in a single byte, or a signature of which a single
\* byte differs, fails with WebhookSignatureError; the digest is taken over
\* the bytes passed in.
C4_SignatureRoundTrip ==
  \A p \in Procs :
    (Done(p) /\ pub[p] = BankKey) =>
      /\ call[p].how = "signed" => verr[p] = Nil
      /\ call[p].how \in {"bodybyte", "sigbyte"} =>
           /\ verr[p].type = "WebhookSignatureError"
           /\ ErrorsIs(verr[p], "ErrInvalidSignature")

C4_Witness ==
  \E p \in Procs :
    /\ Done(p)
    /\ pub[p] = BankKey
    /\ call[p].how = "bodybyte"
    /\ call[p].body = <<Lex("{"), Lex(" ")>>
    /\ verr[p].type = "WebhookSignatureError"

\* C5: key resolution takes the raw PEM before the base64 text and the
\* base64 text before the remote fetch: the configured base64 text is
\* decoded only when no raw PEM is configured, a GET of the pubkey endpoint
\* is issued only when neither is configured, and a key resolved on a
\* client with a raw PEM is the key of that PEM.
C5_SourcePriority ==
  /\ [][/\ stat'.decodes > stat.decodes => Len(webhookPublicKeyPEM) = 0
        /\ stat'.fetches > stat.fetches =>
             /\ Len(webhookPublicKeyPEM) = 0
             /\ TrimSpace(webhookPublicKeyBase64) = <<>>]_vars
  /\ [](Len(webhookPublicKeyPEM) > 0 =>
          /\ stat.decodes = 0
          /\ stat.fetches = 0
          /\ pubKey # 0 => pubKey = parseECDSAPublicKeyFromPEM(webhookPublicKeyPEM).key)

C5_Witness ==
  /\ Len(webhookPublicKeyPEM) > 0
  /\ webhookPublicKeyBase64 # <<>>
  /\ defaultToken # <<>>
  /\ pubKey # 0
  /\ stat.parses = 1
  /\ stat.decodes = 0
  /\ stat.fetches = 0

\* C6: once a key is cached it stays the cached key, and no later
\* resolution parses a source, decodes the base64 text or issues a fetch: a
\* caller is only ever given the cached key; on a client with a raw PEM no
\* fetch is ever issued.
C6_IdempotentCache ==
  /\ [][pubKey # 0 => /\ pubKey' = pubKey
                      /\ [stat' EXCEPT !.verifies = stat.verifies] = stat]_vars
  /\ [](\A p \in Procs : pub[p] # 0 => pub[p] = pubKey)
  /\ [](Len(webhookPublicKeyPEM) > 0 => stat.fetches = 0)

C6_Witness ==
  \E p \in Procs :
    /\ calls[p] = 2
    /\ pc[p] = "verify"
    /\ pub[p] = pubKey
    /\ stat.parses + stat.fetches = 1

\* C7: the sequence of check, fetch and cache runs under the lock: at most
\* one caller is inside it, and it holds the lock; a fetch is in flight
\* only while no key is cached; at most one resolution writes the cache.
C7_ResolutionExclusive ==
  /\ Cardinality({p \in Procs : pc[p] \in {"resolve", "fetch"}}) <= 1
  /\ \A p \in Procs : pc[p] \in {"resolve", "fetch"} => pubKeyMu = p
  /\ \A p \in Procs : pc[p] = "fetch" => pubKey = 0
  /\ stat.writes <= 1
  /\ stat.writes = 0 <=> pubKey = 0

C7_Witness ==
  \E p, q \in Procs :
    /\ p # q
    /\ stat.fetches = 1
    /\ stat.writes = 1
    /\ pc[p] = "verify"
    /\ pc[q] = "verify"
    /\ pub[p] = pubKey
    /\ pub[q] = pubKey

\* doJSON got a response to req, of a status in or outside [200, 300).
Answered == resp # NoResponse /\ resp.sent /\ req.rt.transport = "ok"

Is2xx == req.rt.status >= 200 /\ req.rt.status < 300

\* The table of C8.
KindOfStatus(status) ==
  IF status \in 500..599 THEN "ErrServerError"
  ELSE IF status = 400 THEN "ErrBadRequest"
  ELSE IF status = 403 THEN "ErrInvalidToken"
  ELSE IF status = 404 THEN "ErrNotFound"
  ELSE IF status = 405 THEN "ErrMethodNotAllowed"
  ELSE IF status = 429 THEN "ErrRateLimited"
  ELSE "ErrUnexpectedResponse"

\* C8: a response of a status outside [200, 300) gives an APIError of that
\* status whose kind is the table's, and the error matches that sentinel and
\* no other.
C8_StatusTable ==
  (Answered /\ ~Is2xx) =>
    /\ resp.err.type = "APIError"
    /\ resp.err.status = req.rt.status
    /\ resp.err.kind = KindOfStatus(req.rt.status)
    /\ {t \in Sentinels : ErrorsIs(resp.err, t)} = {KindOfStatus(req.rt.status)}

C8_Witness ==
  /\ Answered
  /\ req.rt.status = 401
  /\ ErrorsIs(resp.err, "ErrUnexpectedResponse")
  /\ ~ErrorsIs(resp.err, "ErrInvalidToken")

\* C9 as stated: for a 2xx response and an expected target, an empty body
\* gives UnexpectedResponseError with the status, a body that is not
\* structurally valid JSON gives DecodeError, and every other body succeeds.
C9_ValidJSONSucceeds ==
  (Answered /\ Is2xx /\ req.out) =>
    IF Len(req.rt.body) = 0
      THEN resp.err.type = "UnexpectedResponseError" /\ resp.err.status = req.rt.status
    ELSE IF jsonUnmarshal(req.rt.body).err = "syntax"
      THEN resp.err.type = "DecodeError"
    ELSE resp.err = Nil

\* C9 amended: for a 2xx response and an expected target, an empty body
\* gives UnexpectedResponseError with the status, a body that json.Unmarshal
\* cannot decode into the target (text that is not JSON, and JSON of another
\* shape than the target, such as 1) gives DecodeError, and otherwise the
\* call succeeds with the decoded value; no 2xx response gives an APIError
\* and no other response is decoded as a success.
C9_SuccessClassification ==
  /\ (Answered /\ Is2xx /\ req.out) =>
       IF Len(req.rt.body) = 0
         THEN /\ resp.err.type = "UnexpectedResponseError"
              /\ resp.err.status = req.rt.status
       ELSE IF jsonUnmarshal(req.rt.body).err # ""
         THEN resp.err.type = "DecodeError"
       ELSE /\ resp.err = Nil
            /\ resp.key = jsonUnmarshal(req.rt.body).key
  /\ (Answered /\ Is2xx) => resp.err.type # "APIError"
  /\ (Answered /\ ~Is2xx) => (resp.err # Nil /\ resp.key = <<>>)

C9_Witness ==
  /\ Answered
  /\ req.out
  /\ req.rt.status = 201
  /\ req.rt.body = <<>>
  /\ resp.err.type = "UnexpectedResponseError"
  /\ resp.err.status = 201

\* C10: retryAfter is present exactly when the status is 429 and the
\* Retry-After header is a count of seconds or an HTTP-date; when present it
\* is not negative; a count n >= 0 gives exactly n seconds, a negative count
\* and a date in the past give zero.
C10_RetryAfter ==
  (Answered /\ ~Is2xx) =>
    LET present == resp.err.retryAfter # <<>>
        d == resp.err.retryAfter[1]
        exact == MulPow10(DigitsValue(req.hdr.n, <<>>), 9)
    IN /\ present <=> (req.rt.status = 429 /\ req.hdr.means \in {"seconds", "date"})
       /\ present =>
            /\ ~IsNegative64(d)
            /\ req.hdr.neg => d = Zero64
            /\ ~req.hdr.neg => (FitsInt64(exact) /\ d = Wrap64(exact))

\* The errCode member of the body req.rt.body as the sender wrote it: <<>>
\* when the body is not an object or has no such member.
SentErrCode ==
  LET b == req.rt.body
      at == {i \in 1..Len(b) : b[i].c = "errCode"}
  IN IF b = <<>> \/ b[1].c # "{" \/ b[Len(b)].c # "}" \/ at = {} THEN <<>>
     ELSE b[CHOOSE i \in at : TRUE].v

\* C11: the ErrCode of the APIError of a non-2xx response is the errCode
\* member of the body as text, whether a number or a string was sent (82 and
\* "82" both give 82); it is empty when the member is absent and when the
\* body is not an object; {"errCode": 82, "message": "declined"} at 402 gives
\* the code 82 and the description of the message.
C11_ErrCodeAsString ==
  (Answered /\ ~Is2xx) =>
    LET v == SentErrCode
        code == resp.err.errCode
    IN /\ v = <<>> => code = <<>>
       /\ (v # <<>> /\ v[1] = 34) => code = TrimSpace(SubSeq(v, 2, Len(v) - 1))
       /\ IsDigits(v) => code = v
       /\ v \in {<<8, 2>>, <<34, 8, 2, 34>>} => code = <<8, 2>>
       /\ (/\ req.rt.status = 402
           /\ req.rt.body = <<Lex("{"), [c |-> "errCode", v |-> <<8, 2>>],
                               [c |-> "message", v |-> <<34, 120, 34>>], Lex("}")>>)
            => (code = <<8, 2>> /\ resp.err.description = <<120>>)

C11_Witness ==
  /\ Answered
  /\ req.rt.status = 402
  /\ req.rt.body = <<Lex("{"), [c |-> "errCode", v |-> <<8, 2>>],
                     [c |-> "message", v |-> <<34, 120, 34>>], Lex("}")>>
  /\ resp.err.errCode = <<8, 2>>
  /\ resp.err.description = <<120>>

\* The call of p has a body and an X-Sign that is not blank.
ArgsGiven(p) == Len(call[p].body) > 0 /\ TrimSpace(call[p].xSign) # <<>>

NoKeyConfigured ==
  Len(webhookPublicKeyPEM) = 0 /\ TrimSpace(webhookPublicKeyBase64) = <<>>

NoTokenConfigured == TrimSpace(defaultToken) = <<>>

\* C12 as stated: with no raw key, no base64 key and no default token, key
\* resolution fails with a ConfigurationError that is not a ValidationError,
\* no request is issued and the cache stays empty.
C12_ConfigurationError ==
  \A p \in Procs :
    (Done(p) /\ ArgsGiven(p) /\ NoKeyConfigured /\ NoTokenConfigured) =>
      /\ verr[p].type = "ConfigurationError"
      /\ ~ErrorsIs(verr[p], "ErrValidation")
      /\ stat.fetches = 0
      /\ pubKey = 0

\* C12 amended: with no raw key, no base64 key and no default token, key
\* resolution fails with the ValidationError of operation "pubkey" (it
\* matches ErrValidation; there is no ConfigurationError), no request is
\* issued and the cache stays empty.
C12_NoSourceIsValidationError ==
  /\ \A p \in Procs :
       (Done(p) /\ ArgsGiven(p) /\ NoKeyConfigured /\ NoTokenConfigured) =>
         /\ verr[p] = Err("ValidationError", "pubkey")
         /\ ErrorsIs(verr[p], "ErrValidation")
  /\ (NoKeyConfigured /\ NoTokenConfigured) =>
       /\ stat.fetches = 0
       /\ stat.writes = 0
       /\ pubKey = 0
       /\ \A p \in Procs : pc[p] # "fetch"

C12_Witness ==
  \E p \in Procs :
    /\ Done(p)
    /\ ArgsGiven(p)
    /\ NoKeyConfigured
    /\ NoTokenConfigured
    /\ ErrorsIs(verr[p], "ErrValidation")

\* The configured key material cannot give a key: a raw PEM that does not
\* parse, or without one a base64 text that does not decode or whose bytes
\* do not parse.
KeyMaterialBad ==
  LET dec == B64Decode(TrimSpace(webhookPublicKeyBase64))
  IN IF Len(webhookPublicKeyPEM) > 0
       THEN parseECDSAPublicKeyFromPEM(webhookPublicKeyPEM).err # ""
     ELSE /\ TrimSpace(webhookPublicKeyBase64) # <<>>
          /\ pubKey = 0
          /\ (~dec.ok \/ parseECDSAPublicKeyFromPEM(dec.bytes).err # "")

\* C13: a failure of the key material (base64 that does not decode, bytes
\* without a PEM block or with an unparsable key, a key that is not an
\* elliptic-curve key), of the raw, the base64 or the fetched source, is
\* returned as a DecodeError, which matches ErrDecode.
C13_KeyMaterialIsDecodeError ==
  \A p \in Procs :
    (/\ Done(p)
     /\ ArgsGiven(p)
     /\ \/ KeyMaterialBad
        \/ verr[p].op \in {"pubkey: base64 decode fetched key",
                           "pubkey: parse fetched PEM"}) =>
      /\ verr[p].type = "DecodeError"
      /\ ErrorsIs(verr[p], "ErrDecode")

\* C14: VerifyWebhook fails with ValidationError when the body is empty and
\* when X-Sign is empty after trimming; it returns at once, before the key
\* is resolved: no source is parsed, no request is issued, the cached key is
\* unchanged.
C14_ArgumentsBeforeKey ==
  /\ [](\A p \in Procs :
          (Done(p) /\ ~ArgsGiven(p)) =>
            /\ verr[p].type = "ValidationError"
            /\ ErrorsIs(verr[p], "ErrValidation")
            /\ pub[p] = 0)
  /\ [][\A p \in Procs :
          (pc[p] = "idle" /\ pc'[p] # "idle" /\ ~ArgsGiven(p)') =>
            /\ pc'[p] = "done"
            /\ stat' = stat
            /\ pubKey' = pubKey
            /\ pubKeyMu' = pubKeyMu
            /\ webhookPublicKeyBase64' = webhookPublicKeyBase64]_vars

C14_Witness ==
  \E p \in Procs :
    /\ Done(p)
    /\ call[p].how = "blank"
    /\ Len(call[p].body) > 0
    /\ verr[p].type = "ValidationError"
    /\ stat.parses = 0

\* C15: with a body and a resolved key, X-Sign that is not standard base64
\* after trimming fails with DecodeError, which is not an invalid-signature
\* error, and ecdsa.VerifyASN1 is not called.
C15_UndecodableSignature ==
  /\ [](\A p \in Procs :
          (Done(p) /\ ArgsGiven(p) /\ pub[p] # 0 /\ call[p].how = "notbase64") =>
            /\ verr[p].type = "DecodeError"
            /\ ErrorsIs(verr[p], "ErrDecode")
            /\ ~ErrorsIs(verr[p], "ErrInvalidSignature"))
  /\ [][\A p \in Procs :
          (pc[p] = "verify" /\ pc'[p] # "verify" /\ call[p].how = "notbase64") =>
            stat'.verifies = stat.verifies]_vars

C15_Witness ==
  \E p \in Procs :
    /\ Done(p)
    /\ pub[p] # 0
    /\ call[p].how = "notbase64"
    /\ verr[p].type = "DecodeError"

\* The state follows the invocation of an API operation.
Invoked == req.op \in Operations

NotAccepted(rt) == rt.status < 200 \/ rt.status >= 300

\* C16: an invocation of Verification, VerificationLink, Payment, Status or
\* PublicKey, and a remote key fetch, give at most one request to the HTTP
\* client: a transport failure comes back at once as a TransportError and
\* a non-2xx status (429 and 5xx included) as an APIError, each after
\* exactly one attempt.
C16_SingleAttempt ==
  /\ [](Invoked =>
          /\ resp.out.attempts <= 1
          /\ (resp.out.sent /\ req.rt.transport # "ok") =>
               /\ resp.out.attempts = 1
               /\ resp.out.err.type = "TransportError"
               /\ ErrorsIs(resp.out.err, "ErrTransport")
          /\ (resp.out.sent /\ req.rt.transport = "ok" /\ NotAccepted(req.rt)) =>
               /\ resp.out.attempts = 1
               /\ resp.out.err.type = "APIError")
  /\ [][\A p \in Procs, rt \in FetchRoundTrips :
          FetchReturn(p, rt) =>
            /\ stat'.attempts = stat.attempts + 1
            /\ rt.transport # "ok" =>
                 /\ pc'[p] = "done"
                 /\ verr'[p].type = "TransportError"
            /\ (rt.transport = "ok" /\ NotAccepted(rt)) =>
                 /\ pc'[p] = "done"
                 /\ verr'[p].type = "APIError"]_vars

C16_Witness ==
  /\ req.op = "Payment"
  /\ req.rt.transport = "error"
  /\ resp.out.err.type = "TransportError"
  /\ resp.out.attempts = 1
  /\ Done(1)
  /\ verr[1].type = "APIError"
  /\ verr[1].status = 429
  /\ stat.attempts = 1

RequestToken == IF req.nilRequest THEN <<>> ELSE TrimSpace(req.token)

\* C18: the X-Token of the request an API operation issues is the request's
\* token (trimmed) when that is not empty and the client's default token
\* otherwise; with both empty the operation returns a ValidationError and
\* nothing is given to the HTTP client nor to the dry-run handler.
C18_TokenResolution ==
  Invoked =>
    /\ resp.out.sent =>
         /\ resp.out.xToken # <<>>
         /\ resp.out.xToken =
              IF RequestToken # <<>> THEN RequestToken ELSE TrimSpace(defaultToken)
    /\ (RequestToken = <<>> /\ TrimSpace(defaultToken) = <<>>) =>
         /\ resp.out.err.type = "ValidationError"
         /\ ErrorsIs(resp.out.err, "ErrValidation")
         /\ ~resp.out.sent
         /\ resp.out.attempts = 0
         /\ resp.out.handled = <<>>

C18_Witness ==
  /\ Invoked
  /\ req.token = <<66, 2>>
  /\ defaultToken = <<1>>
  /\ resp.out.sent
  /\ resp.out.xToken = <<2>>
  /\ resp.before.op \in Operations

\* The request of the invocation passes the checks its operation makes
\* before it builds the payload.
PassesValidation ==
  /\ req.op # "PublicKey" => ~req.nilRequest
  /\ RequestToken # <<>> \/ TrimSpace(defaultToken) # <<>>
  /\ req.op \in {"Verification", "VerificationLink"} =>
       /\ req.amount > 0
       /\ req.saveCard => TrimSpace(req.walletID) # <<>>
  /\ req.op = "Payment" =>
       /\ TrimSpace(req.cardToken) # <<>>
       /\ req.amount > 0
       /\ req.initKind \notin {"", " "}
       /\ req.initKind = "client" => TrimSpace(req.redirectURL) # <<>>
  /\ req.op = "Status" => TrimSpace(req.invoiceID) # <<>>

EndpointOf(op) ==
  CASE op \in {"Verification", "VerificationLink"} -> "/api/merchant/invoice/create"
    [] op = "Payment" -> "/api/merchant/wallet/payment"
    [] op = "Status" -> "/api/merchant/invoice/status?invoiceId="
    [] op = "PublicKey" -> "/api/merchant/pubkey"

\* C19: with the DryRun option Verification, Payment, Status and PublicKey
\* give nothing to the HTTP client, invoke the dry-run handler exactly once
\* with the endpoint and the payload, and return a nil result and a nil
\* error; a request that fails validation gets its ValidationError and the
\* handler is not invoked.
C19_DryRun ==
  (Invoked /\ req.op # "VerificationLink" /\ req.dryRun) =>
    /\ ~resp.out.sent
    /\ resp.out.attempts = 0
    /\ resp.out.value = "nil"
    /\ IF PassesValidation
         THEN /\ resp.out.err = Nil
              /\ Len(resp.out.handled) = 1
              /\ resp.out.handled[1].endpoint = EndpointOf(req.op)
              /\ req.op = "PublicKey" <=> resp.out.handled[1].payload.kind = "nil"
         ELSE /\ resp.out.err.type = "ValidationError"
              /\ resp.out.handled = <<>>

C19_Witness ==
  /\ Invoked
  /\ req.op = "Payment"
  /\ req.dryRun
  /\ req.rt = Accepted
  /\ resp.out.err = Nil
  /\ resp.out.value = "nil"
  /\ Len(resp.out.handled) = 1
  /\ resp.out.handled[1].payload.cardToken = <<3>>
  /\ ~resp.out.sent

\* C20: VerificationLink makes one Verification call of its own: it issues
\* the request Verification issues for the same arguments (exactly one for
\* a request that passes validation, is not a dry run and can be built), so
\* Verification followed by VerificationLink with the same request issues
\* two; and it returns an error, and no URL, when the pageUrl of the
\* response is not an absolute URL.
C20_LinkIsOneVerification ==
  (Invoked /\ req.op = "VerificationLink") =>
    LET v == Verification(defaultToken, req)
        live == PassesValidation /\ ~req.dryRun /\ req.rt.build
    IN /\ resp.out.sent = v.sent
       /\ resp.out.attempts = v.attempts
       /\ resp.out.xToken = v.xToken
       /\ resp.out.handled = v.handled
       /\ v.err # Nil => resp.out.err = v.err
       /\ live => resp.out.attempts = 1
       /\ (live /\ resp.before.op = "Verification" /\ resp.before.same) =>
            resp.before.attempts + resp.out.attempts = 2
       /\ (v.err = Nil /\ v.value = "resp") =>
            IF urlParse(TrimSpace(v.pageUrl)).abs
              THEN resp.out.err = Nil /\ resp.out.value = "url"
              ELSE resp.out.err \notin {Nil, v.err} /\ resp.out.value = "nil"

C20_Witness ==
  /\ Invoked
  /\ req.op = "VerificationLink"
  /\ resp.before.op = "Verification"
  /\ resp.before.same
  /\ resp.before.attempts = 1
  /\ resp.out.attempts = 1
  /\ req.rt.body = PageBody(<<47, 104>>)
  /\ resp.out.err.type = "error"
  /\ resp.out.value = "nil"

\* The errCode and the failureReason NewPaymentError is given for the
\* response req, trimmed.
GivenCode == IF req.wallet THEN <<>> ELSE TrimSpace(req.errCode)

GivenReason == TrimSpace(req.failureReason)

FailureStatuses == {"failure", "reversed", "expired"}

\* C21: NewPaymentError returns nil exactly when the trimmed code and the
\* trimmed reason are both empty and the status is none of failure,
\* reversed, expired; with both empty and such a status the error's reason
\* is made from the status; with a code or a reason the error is not nil
\* whatever the status, success included, and carries them trimmed.
C21_PaymentErrorNil ==
  (resp.done = "PaymentError" /\ ~req.nil) =>
    /\ resp.pe.nil <=>
         (GivenCode = <<>> /\ GivenReason = <<>> /\ req.status \notin FailureStatuses)
    /\ (GivenCode = <<>> /\ GivenReason = <<>> /\ req.status \in FailureStatuses) =>
         /\ ~resp.pe.nil
         /\ resp.pe.ErrCode = <<>>
         /\ resp.pe.FailureReason = <<"payment status indicates failure: ", req.status>>
    /\ (GivenCode # <<>> \/ GivenReason # <<>>) =>
         /\ ~resp.pe.nil
         /\ resp.pe.ErrCode = GivenCode
         /\ resp.pe.FailureReason = GivenReason
         /\ resp.pe.Status = req.status

C21_Witness ==
  /\ resp.done = "PaymentError"
  /\ ~req.nil
  /\ req.status = "success"
  /\ req.errCode = <<66>>
  /\ req.failureReason = <<66, 8, 0, 0, 2, 66>>
  /\ ~resp.pe.nil
  /\ resp.pe.FailureReason = <<8, 0, 0, 2>>

\* C22: of IsSuccess, IsFailure and IsPending at most one holds of a status,
\* and IsFinal holds exactly when IsSuccess or IsFailure does: created and
\* processing are pending only, success is success and final, failure,
\* reversed and expired are failure and final, any other status is none.
C22_StatusPredicates ==
  resp.done = "Status" =>
    /\ Cardinality({k \in {"IsSuccess", "IsFailure", "IsPending"} : resp[k]}) <= 1
    /\ resp.IsFinal <=> (resp.IsSuccess \/ resp.IsFailure)
    /\ resp.IsPending <=> req.status \in {"created", "processing"}
    /\ resp.IsSuccess <=> req.status = "success"
    /\ resp.IsFailure <=> req.status \in {"failure", "reversed", "expired"}
    /\ req.status \notin {"created", "processing", "success", "failure", "reversed",
                          "expired"} =>
         ~(resp.IsSuccess \/ resp.IsFailure \/ resp.IsPending \/ resp.IsFinal)

C22_Witness ==
  /\ resp.done = "Status"
  /\ req.status = "expired"
  /\ resp.IsFailure
  /\ resp.IsFinal
  /\ ~resp.IsPending

\* The place of a message in the order None < Error < Warning < Info <
\* Debug < All, by the method that logs it.
LevelOfMethod(name) ==
  CASE name = "Error" -> 1
    [] name \in {"Warn", "Warning"} -> 2
    [] name = "Info" -> 3
    [] name \in {"Debug", "All"} -> 4

\* C23: after any SetLevel calls a message is written exactly when its
\* level is not above the level configured last: nothing at LevelNone; at
\* LevelInfo no debug message, but info, warning and error messages;
\* everything at LevelAll; and SetLevel stores an argument outside
\* LevelNone..LevelAll as LevelNone.
C23_LevelFilter ==
  /\ [](/\ globalLevel \in 0..5
        /\ \A i \in 1..Len(logged) :
             /\ logged[i].written <=> LevelOfMethod(logged[i].method) <= logged[i].current
             /\ logged[i].current = 0 => ~logged[i].written
             /\ logged[i].current = 5 => logged[i].written
             /\ logged[i].current = 3 =>
                  (logged[i].written <=> logged[i].label # "DEBUG"))
  /\ [][/\ Len(logged') > Len(logged) => logged'[Len(logged')].current = globalLevel
        /\ \A level \in LevelArguments :
             SetLevel(level) =>
               globalLevel' = IF level \in 0..5 THEN level ELSE 0]_vars

C23_Witness ==
  /\ Len(logged) = 2
  /\ globalLevel = 0
  /\ logged[1].current = 3
  /\ logged[1].method = "Debug"
  /\ ~logged[1].written
  /\ logged[2].current = 3
  /\ logged[2].method = "Info"
  /\ logged[2].written

\* p leaves ensureWebhookPublicKey with an error in this step.
ResolutionFails(p) == pc[p] \in {"resolve", "fetch"} /\ pc'[p] = "done"

\* C24: a resolution that fails (a raw or base64 key that does not parse, a
\* failed fetch, a fetched response without key, a fetched key that does
\* not decode or parse) leaves no cached key and leaves the base64 text as
\* it was; the failure is not remembered: a resolution that finds no cached
\* key goes to the sources again, whatever failed before, and issues a new
\* fetch when neither key is configured and a token is.
C24_FailureNotCached ==
  /\ [][\A p \in Procs :
          ResolutionFails(p) =>
            /\ pubKey = 0
            /\ pubKey' = 0
            /\ webhookPublicKeyBase64' = webhookPublicKeyBase64
            /\ stat'.writes = stat.writes]_vars
  /\ [][\A p \in Procs :
          (pc[p] = "resolve" /\ pc'[p] # "resolve" /\ pubKey = 0) =>
            IF Len(webhookPublicKeyPEM) > 0
              THEN stat'.parses = stat.parses + 1
            ELSE IF TrimSpace(webhookPublicKeyBase64) # <<>>
              THEN stat'.decodes = stat.decodes + 1
            ELSE IF TrimSpace(defaultToken) # <<>>
              THEN pc'[p] = "fetch" /\ stat'.fetches = stat.fetches + 1
            ELSE ResolutionFails(p)]_vars

C24_Witness ==
  \E p \in Procs :
    /\ pc[p] = "fetch"
    /\ stat.fetches = 2
    /\ stat.attempts = 1
    /\ pubKey = 0
    /\ webhookPublicKeyBase64 = <<>>

\* The error body of the exchange as parseAPIErrorBody sees it: its
\* members, its trimmed text, and what was sent for the description field i
\* as the struct field (any case of the key) and as the map key.
SentMembers == JSONMembers(req.rt.body)

SentRaw == TrimSpace(BodyText(req.rt.body))

SentObject == \A i \in 1..Len(SentMembers) : SentMembers[i].c # "none"

SentFor(i, fold) ==
  LET at == {k \in 1..Len(SentMembers) :
               (IF fold THEN FoldName(SentMembers[k].c) ELSE SentMembers[k].c)
                 = DescriptionFields[i]}
      v == SentMembers[CHOOSE k \in at : \A l \in at : l <= k].v
  IN IF at = {} \/ v = <<110>> THEN <<>>
     ELSE IF v[1] = 34 THEN TrimSpace(SubSeq(v, 2, Len(v) - 1))
     ELSE IF fold THEN <<>>
     ELSE v

KnownShape ==
  /\ SentObject
  /\ \A k \in 1..Len(SentMembers) :
       (\E i \in 1..Len(DescriptionFields) : FoldName(SentMembers[k].c) = DescriptionFields[i])
         => (SentMembers[k].v = <<110>> \/ SentMembers[k].v[1] = 34)

FirstSent(fold) ==
  LET full == {i \in 1..Len(DescriptionFields) : SentFor(i, fold) # <<>>}
  IN IF full = {} THEN <<>>
     ELSE SentFor(CHOOSE i \in full : \A j \in full : i <= j, fold)

SingleSent ==
  LET keys == {SentMembers[k].c : k \in 1..Len(SentMembers)}
      v == SentMembers[Len(SentMembers)].v
  IN IF Cardinality(keys) # 1 \/ v = <<110>> THEN <<>>
     ELSE IF v[1] = 34 THEN TrimSpace(SubSeq(v, 2, Len(v) - 1))
     ELSE v

CapturedFrom(err, raw) ==
  /\ Len(err.body) <= BodyCapture
  /\ Len(err.body) = (IF Len(raw) <= BodyCapture THEN Len(raw) ELSE BodyCapture)
  /\ err.body = SubSeq(raw, 1, Len(err.body))
  /\ Len(raw) <= BodyCapture => err.body = raw

\* C26: the Body of the APIError and of the DecodeError of doJSON and of the
\* DecodeError of ParseWebhook is the prefix of the body of length
\* min(len(body), 4096): never longer than 4096 bytes, and the whole body
\* when the body has at most 4096 bytes.
C26_BodyCapture ==
  /\ (Answered /\ resp.err.type \in {"APIError", "DecodeError"})
       => CapturedFrom(resp.err, BodyText(req.rt.body))
  /\ \A p \in Procs :
       (pc[p] = "done" /\ ret[p].type = "DecodeError")
         => CapturedFrom(ret[p], BodyText(call[p].body))

\* doJSON answered 400 with a body of 4098 bytes and ParseWebhook was given
\* one of 4097 bytes that is no object: both errors keep 4096 bytes.
C26_Witness ==
  /\ Answered
  /\ resp.err.type = "APIError"
  /\ Len(BodyText(req.rt.body)) = BodyCapture + 2
  /\ Len(resp.err.body) = BodyCapture
  /\ pc[1] = "done"
  /\ ret[1].type = "DecodeError"
  /\ Len(BodyText(call[1].body)) = BodyCapture + 1
  /\ Len(ret[1].body) = BodyCapture

\* The configured key the resolution stops at, when it cannot be used: the
\* raw PEM, or with no raw PEM the base64 text.
RawUnusable ==
  /\ Len(webhookPublicKeyPEM) > 0
  /\ parseECDSAPublicKeyFromPEM(webhookPublicKeyPEM).err # ""

Base64Unusable ==
  /\ Len(webhookPublicKeyPEM) = 0
  /\ TrimSpace(webhookPublicKeyBase64) # <<>>
  /\ \/ ~B64Decode(TrimSpace(webhookPublicKeyBase64)).ok
     \/ parseECDSAPublicKeyFromPEM(B64Decode(TrimSpace(webhookPublicKeyBase64)).bytes).err # ""

\* C27: key resolution does not fall through from a configured source that
\* cannot be used.  With a raw PEM that does not parse every resolution fails
\* on the PEM, whatever base64 text and token are configured, and the text is
\* not decoded; with no raw PEM and a base64 text that does not decode or
\* parse every resolution fails on the text; in both cases no fetch is ever
\* issued and no key is ever cached, so every later call fails the same way.
C27_NoFallThrough ==
  /\ []((RawUnusable \/ Base64Unusable) =>
          /\ pubKey = 0
          /\ stat.fetches = 0
          /\ \A p \in Procs : pc[p] \notin {"fetch", "verify"})
  /\ [][\A p \in Procs :
          (pc[p] = "resolve" /\ pc'[p] # "resolve") =>
            /\ RawUnusable =>
                 /\ pc'[p] = "done"
                 /\ verr'[p] = Err("wrapError", "pubkey: parse PEM")
                 /\ stat'.decodes = stat.decodes
                 /\ stat'.fetches = stat.fetches
            /\ Base64Unusable =>
                 /\ pc'[p] = "done"
                 /\ verr'[p] =
                      (IF B64Decode(TrimSpace(webhookPublicKeyBase64)).ok
                         THEN Err("wrapError", "pubkey: parse decoded PEM")
                       ELSE Err("wrapError", "pubkey: base64 decode"))
                 /\ stat'.fetches = stat.fetches]_vars

\* The second call of a client with a raw PEM that does not parse, the
\* bank's key as base64 text and a token has failed on the PEM as the first
\* did.
C27_Witness ==
  /\ RawUnusable
  /\ webhookPublicKeyBase64 = KeyText(PEMOf(BankKey))
  /\ defaultToken = <<1>>
  /\ calls[1] = 2
  /\ pc[1] = "done"
  /\ verr[1] = Err("wrapError", "pubkey: parse PEM")
  /\ stat.parses = 2
  /\ stat.fetches = 0

\* Caller p is in a call with a body and an X-Sign that is not base64.
Malformed(p) == call[p].how = "notbase64" /\ Len(call[p].body) > 0

\* C28: VerifyWebhook resolves the key before it decodes X-Sign.  A call
\* with a body and an X-Sign that is not base64 goes to the resolution; with
\* no cached key, no configured key and a token the resolution issues the
\* fetch; when the resolution fails the call returns the error of the
\* resolution, not the DecodeError of the signature, which a call returns
\* only after it was given a key.
C28_KeyBeforeSignature ==
  /\ [][\A p \in Procs :
          (pc[p] = "idle" /\ pc'[p] # "idle" /\ call'[p].how = "notbase64"
             /\ Len(call'[p].body) > 0)
            => pc'[p] = "lock"]_vars
  /\ [][\A p \in Procs :
          (/\ Malformed(p)
           /\ pc[p] = "resolve"
           /\ pc'[p] # "resolve"
           /\ pubKey = 0
           /\ Len(webhookPublicKeyPEM) = 0
           /\ TrimSpace(webhookPublicKeyBase64) = <<>>
           /\ TrimSpace(defaultToken) # <<>>)
            => (pc'[p] = "fetch" /\ stat'.fetches = stat.fetches + 1)]_vars
  /\ [][\A p \in Procs :
          (Malformed(p) /\ pc[p] \in {"resolve", "fetch"} /\ pc'[p] = "done") =>
            /\ verr'[p] # Nil
            /\ verr'[p].op # "verify: base64 decode X-Sign"
            /\ ret'[p] = verr'[p]]_vars
  /\ [](\A p \in Procs :
          verr[p].op = "verify: base64 decode X-Sign" => (Malformed(p) /\ pub[p] # 0))

\* The first call of a client without a key, with an X-Sign that is not
\* base64: the fetch was issued and answered with an error status, which the
\* call returned.
C28_Witness ==
  /\ Malformed(1)
  /\ calls[1] = 1
  /\ pc[1] = "done"
  /\ stat.fetches = 1
  /\ verr[1].type = "APIError"
  /\ pub[1] = 0

\* The step is a call of PublicKey.
PublicKeyStep == pc[1] = "idle" /\ pc'[1] = "idle" /\ calls'[1] = calls[1] + 1 /\ req'.op = "PublicKey"

\* The last API call was a PublicKey that the endpoint answered.
PublicKeySucceeded == req.op = "PublicKey" /\ resp.out.err = Nil /\ resp.out.sent

\* C29: PublicKey does not touch the key cache.  A call of PublicKey leaves
\* the cached key, the base64 text, the lock and the counts of the
\* resolution as they were, and with a key cached a PublicKey that succeeds
\* still made its own exchange.  On a client with no configured key, the
\* VerifyWebhook that follows a PublicKey that succeeded finds no cached key
\* and fetches with the default token: without a default token it fails with
\* the ValidationError of the resolution, whatever token the PublicKey
\* request carried.
C29_PublicKeyLeavesCache ==
  /\ [][PublicKeyStep =>
          /\ pubKey' = pubKey
          /\ webhookPublicKeyBase64' = webhookPublicKeyBase64
          /\ pubKeyMu' = pubKeyMu
          /\ stat' = stat
          /\ (pubKey # 0 /\ resp'.out.err = Nil /\ resp'.out.value = "resp")
               => (resp'.out.sent /\ resp'.out.attempts = 1)]_vars
  /\ [](PublicKeySucceeded /\ stat.fetches = 0 => pubKey = 0 /\ webhookPublicKeyBase64 = <<>>)
  /\ [][(PublicKeySucceeded /\ stat.fetches = 0 /\ pc[1] = "resolve" /\ pc'[1] # "resolve") =>
          IF TrimSpace(defaultToken) # <<>>
            THEN pc'[1] = "fetch" /\ stat'.fetches = 1
          ELSE pc'[1] = "done" /\ verr'[1] = Err("ValidationError", "pubkey")]_vars

\* PublicKey succeeded with the token 2 of its request on a client whose
\* default token is 1, and the VerifyWebhook after it is in its own fetch.
C29_Witness ==
  /\ PublicKeySucceeded
  /\ resp.out.xToken = <<2>>
  /\ defaultToken = <<1>>
  /\ pc[1] = "fetch"
  /\ stat.fetches = 1
  /\ pubKey = 0

\* C30: the lock is held for the whole of a resolution, the fetch
\* included, and every way out of the resolution (cached key, key resolved,
\* any failure) releases it.  So, each HTTP call returning, no caller waits
\* for the lock for ever: it gets the lock and makes its own attempt,
\* whatever became of the attempt before it; and no caller stays in a call
\* for ever: every call of every caller returns.
C30_LockReleased ==
  /\ [](\A p \in Procs : pc[p] \in {"resolve", "fetch"} => pubKeyMu = p)
  /\ [][\A p \in Procs :
          (pc[p] \in {"resolve", "fetch"} /\ pc'[p] \notin {"resolve", "fetch"}) =>
            (pubKeyMu = p /\ pubKeyMu' = 0)]_vars
  /\ [](pubKeyMu # 0 => pc[pubKeyMu] \in {"resolve", "fetch"})
  /\ \A p \in Procs : []<>(pc[p] # "lock")
  /\ \A p \in Procs : []<>(pc[p] \in {"idle", "done"})

\* Caller 1 failed in its fetch and returned; caller 2, in its first call,
\* holds the lock and is in the second fetch.
C30_Witness ==
  /\ pc[1] = "done"
  /\ verr[1].type = "APIError"
  /\ calls = [p \in Procs |-> 1]
  /\ pc[2] = "fetch"
  /\ pubKeyMu = 2
  /\ stat.fetches = 2

====
